---- MODULE Spec2Model ----
(***************************************************************************)
(* State-machine model of the Slack ingestion engine of samuelizer:        *)
(*   - SlackDownloader (src/slack/download_slack_channel.py):              *)
(*     fetch_messages, fetch_thread_messages, get_user_info and the        *)
(*     MessageProcessor that resolves user mentions;                       *)
(*   - SlackChannelLister (src/slack/channel_lister.py);                   *)
(*   - SlackPaginator (src/slack/pagination.py).                           *)
(* The remote service is the environment: every HTTP exchange draws its    *)
(* response from a small set.  `trace` records, in order, every call the   *)
(* downloader makes to the HTTP client and to time.sleep.                  *)
(***************************************************************************)
EXTENDS Integers, Sequences, FiniteSets, TLC

(***************************************************************************)
(* Bounds of the model.                                                    *)
(***************************************************************************)
\* HTTP requests to conversations.history / .replies / .join in one session
MaxCalls == 4

(***************************************************************************)
(* Program constants.                                                      *)
(***************************************************************************)
\* Config.SLACK_RATE_LIMIT_DELAY default, seconds
SLACK_RATE_LIMIT_DELAY == 1
\* a slip in rate_limit_delay: the seconds are taken for milliseconds
rate_limit_delay_unscaled == SLACK_RATE_LIMIT_DELAY

\* SlackConfig.rate_limit_delay, in milliseconds
rate_limit_delay == SLACK_RATE_LIMIT_DELAY * 1000
\* Config.SLACK_BATCH_SIZE default
SLACK_BATCH_SIZE == 1000

base_url == "https://slack.com/api"
channel_id == "C1"

\* a parameter (or field) that is not present in a dict
Absent == "<absent>"
\* Slack timestamps; message number n of the session gets Ts(n)
Ts(n) == <<"ts", n>>
\* thread_ts of a message that has none (msg.get("thread_ts") is None)
NoTs == <<>>
\* a thread root that is not the message itself
OtherTs == <<"root", 0>>

Users == {"U1", "U2"}

(***************************************************************************)
(* What the service can answer.                                            *)
(***************************************************************************)
\* next_cursor of a page is Absent (no such key), "" (present but empty) or a token

\* message text: a sequence of tokens; <<"mention", u>> is the raw "<@u>"
Mention(u) == <<"mention", u>>
At(name) == <<"at", name>>

\* raw messages, before the service stamps their ts
\*   thread: "none" (no thread_ts), "self" (thread_ts = ts), "other"
\*   attached: the raw message already carries a non-empty thread_replies
Shape(text, thread, reply_count, attached) ==
  [text |-> text, thread |-> thread, reply_count |-> reply_count, attached |-> attached]

\* a page without thread-bearing messages; its first text names U1 twice
PlainPage ==
  << Shape(<<Mention("U1"), Mention("U1")>>, "none", 0, FALSE),
     Shape(<<>>, "none", 0, FALSE) >>

\* the ok bodies conversations.history can answer with: messages and next_cursor
HistoryBodies ==
  LET pages == { <<>>,
                 PlainPage,
                 << Shape(<<>>, "none", 1, FALSE),
                    Shape(<<>>, "none", 1, TRUE) >>,
                 << Shape(<<>>, "other", 1, FALSE),
                    Shape(<<>>, "self", 0, FALSE) >> }
  IN {[messages |-> m, cursor |-> c] : m \in pages, c \in {Absent, "c1"}}
       \cup {[messages |-> PlainPage, cursor |-> ""]}

\* a reply that names U1 and carries thread metadata of its own
ReplyPage == << Shape(<<Mention("U1")>>, "other", 1, FALSE) >>

\* the ok bodies conversations.replies can answer with
ReplyBodies ==
  {[messages |-> m, cursor |-> c] : m \in {<<>>, ReplyPage}, c \in {Absent, "c1"}}
    \cup {[messages |-> ReplyPage, cursor |-> ""]}

\* users.info payloads: the "user" object of an ok answer
UserPayloads(u) ==
  IF u = "U1"
    THEN { [display_name |-> "alice", real_name |-> "Alice A"] }
    ELSE { [display_name |-> "",      real_name |-> "Bob B"] }

\* the ways a users.info lookup fails
LookupFailures == {"transport", "not_ok", "malformed"}

\* error strings of an ok:false body
ApiErrors == {"not_in_channel", "ratelimited", "channel_not_found"}

(***************************************************************************)
(* State.                                                                  *)
(***************************************************************************)
VARIABLES
  auto_join,           \* SlackConfig.auto_join
  users_cache,         \* SlackDownloader.users_cache: user id -> display name
  pc,                  \* where fetch_messages stands
  params,              \* fetch_messages: params of the history request
  all_messages,        \* fetch_messages: all_messages
  page,                \* fetch_messages: page
  processed_messages,  \* fetch_messages: processed_messages of the current page
  idx,                 \* fetch_messages: position of the thread loop in the page
  data_cursor,         \* fetch_messages: next_cursor of the current page
  error,               \* exception fetch_messages ended with, and its message
  t_pc,                \* where fetch_thread_messages stands
  t_caller,            \* who called fetch_thread_messages
  t_params,            \* fetch_thread_messages: params of the replies request
  t_all,               \* fetch_thread_messages: all_messages
  t_page,              \* fetch_thread_messages: page
  t_error,             \* exception fetch_thread_messages ended with
  error_msg,           \* fetch_messages: error_msg
  t_error_msg,         \* fetch_thread_messages: error_msg
  served,              \* number of messages the service has handed out
  trace                \* calls to http_client and time.sleep, in order

dlVars == <<auto_join, users_cache, pc, params, all_messages, page,
            processed_messages, idx, data_cursor, error, t_pc, t_caller,
            t_params, t_all, t_page, t_error, error_msg, t_error_msg,
            served, trace>>

histVars == <<params, all_messages, page, processed_messages, idx, data_cursor,
              error_msg>>
thrVars == <<t_pc, t_caller, t_params, t_all, t_page, t_error, t_error_msg>>

NoError == [type |-> "none", msg |-> ""]
Raised(type, msg) == [type |-> type, msg |-> msg]

(***************************************************************************)
(* Calls recorded in the trace.                                            *)
(***************************************************************************)
Get(url, p, resp) == [op |-> "GET", url |-> url, params |-> p, resp |-> resp]
Post(url, d, resp) == [op |-> "POST", url |-> url, params |-> d, resp |-> resp]
\* time.sleep(seconds), recorded in milliseconds
Sleep(ms) == [op |-> "sleep", ms |-> ms]
Call(fn, thread_ts, of) == [op |-> "call", fn |-> fn, thread_ts |-> thread_ts, of |-> of]

history_url == <<base_url, "conversations.history">>
replies_url == <<base_url, "conversations.replies">>
join_url == <<base_url, "conversations.join">>
users_info_url == <<base_url, "users.info">>

IsRequest(e) == e.op \in {"GET", "POST"}
IsRequestTo(e, url) == IsRequest(e) /\ e.url = url
Count(seq, P(_)) == Cardinality({i \in 1..Len(seq) : P(seq[i])})
\* requests that count against MaxCalls
Budgeted(e) == IsRequest(e) /\ e.url # users_info_url
CallsLeft == Count(trace, Budgeted) < MaxCalls

(***************************************************************************)
(* Responses of the service.                                               *)
(***************************************************************************)
\* the service stamps message number n of the session
Stamp(shape, n) ==
  [ts |-> Ts(n),
   text |-> shape.text,
   thread_ts |-> CASE shape.thread = "none" -> NoTs
                   [] shape.thread = "self" -> Ts(n)
                   [] OTHER -> OtherTs,
   reply_count |-> shape.reply_count,
   has_thread_replies |-> shape.attached,
   thread_replies |-> IF shape.attached
                        THEN <<[ts |-> <<"old", n>>, text |-> <<>>, thread_ts |-> Ts(n),
                                reply_count |-> 0, has_thread_replies |-> FALSE,
                                thread_replies |-> <<>>]>>
                        ELSE <<>>]

StampAll(shapes, n) == [i \in 1..Len(shapes) |-> Stamp(shapes[i], n + i)]

OkPage(messages, cursor) ==
  [kind |-> "ok", error |-> "", messages |-> messages, cursor |-> cursor]
ErrorBody(e) == [kind |-> "error", error |-> e, messages |-> <<>>, cursor |-> Absent]
\* the GET raises a RequestException
TransportFailure == [kind |-> "transport", error |-> "", messages |-> <<>>, cursor |-> Absent]
\* HTTP 429 with a "ratelimited" body: raise_for_status() raises HTTPError
TooManyRequests == [kind |-> "status_429", error |-> "ratelimited", messages |-> <<>>,
                    cursor |-> Absent]
\* ok:true body without a "messages" field
NoMessagesBody == [kind |-> "malformed", error |-> "", messages |-> <<>>, cursor |-> Absent]

PageResponses(bodies) ==
  {OkPage(StampAll(b.messages, served), b.cursor) : b \in bodies}
    \cup {ErrorBody(e) : e \in ApiErrors}
    \cup {TransportFailure, TooManyRequests, NoMessagesBody}

JoinResponses == {"ok", "not_ok", "raises"}

(***************************************************************************)
(* SlackDownloader.get_user_info and MessageProcessor.                     *)
(* A lookup is an HTTP exchange inside the handler that processes a page,  *)
(* so these operators return the set of outcomes the service allows:       *)
(* [ret / text / msgs, cache (users_cache afterwards), calls (requests     *)
(* issued, in order)].                                                     *)
(***************************************************************************)
LookupAnswers(user_id) ==
  {[kind |-> f, user |-> [display_name |-> "", real_name |-> ""]] : f \in LookupFailures}
    \cup {[kind |-> "ok", user |-> u] : u \in UserPayloads(user_id)}

\* user.get("profile", {}).get("display_name") or user.get("real_name") or user_id
display_name(user, user_id) ==
  IF user.display_name # "" THEN user.display_name
  ELSE IF user.real_name # "" THEN user.real_name
  ELSE user_id

\* a slip in get_user_info: a resolved name is not stored
get_user_info_miss_forgetful(user_id, cache, answer) ==
  [ret |-> IF answer.kind = "ok" THEN display_name(answer.user, user_id) ELSE user_id,
   cache |-> cache,
   calls |-> <<Get(users_info_url, [user |-> user_id],
                   IF answer.kind = "ok" THEN "ok" ELSE "failed")>>]

\* a slip in get_user_info: the raw id is stored when the lookup fails
get_user_info_miss_poisoning(user_id, cache, answer) ==
  LET name == IF answer.kind = "ok" THEN display_name(answer.user, user_id) ELSE user_id
  IN [ret |-> name,
      cache |-> (user_id :> name) @@ cache,
      calls |-> <<Get(users_info_url, [user |-> user_id],
                      IF answer.kind = "ok" THEN "ok" ELSE "failed")>>]

\* get_user_info on a cache miss, given the answer of users.info
get_user_info_miss(user_id, cache, answer) ==
  LET call == Get(users_info_url, [user |-> user_id],
                  IF answer.kind = "ok" THEN "ok" ELSE "failed")
  IN IF answer.kind = "ok"
       THEN [ret |-> display_name(answer.user, user_id),
             cache |-> (user_id :> display_name(answer.user, user_id)) @@ cache,
             calls |-> <<call>>]
       ELSE [ret |-> user_id, cache |-> cache, calls |-> <<call>>]

\* a slip in get_user_info: the cache is not consulted
get_user_info_uncached(user_id, cache) ==
  {get_user_info_miss(user_id, cache, a) : a \in LookupAnswers(user_id)}

get_user_info(user_id, cache) ==
  IF user_id \in DOMAIN cache
    THEN {[ret |-> cache[user_id], cache |-> cache, calls |-> <<>>]}
    ELSE {get_user_info_miss(user_id, cache, a) : a \in LookupAnswers(user_id)}

\* re.sub(r'<@([A-Z0-9]+)>', replace_mention, text): matches left to right
RECURSIVE replace_user_mentions(_, _)
replace_user_mentions(text, cache) ==
  IF text = <<>>
    THEN {[text |-> <<>>, cache |-> cache, calls |-> <<>>]}
    ELSE LET tok == Head(text)
             heads == IF tok[1] = "mention"
                        THEN {[tok |-> At(r.ret), cache |-> r.cache, calls |-> r.calls] :
                                 r \in get_user_info(tok[2], cache)}
                        ELSE {[tok |-> tok, cache |-> cache, calls |-> <<>>]}
         IN UNION { {[text |-> <<h.tok>> \o rest.text,
                      cache |-> rest.cache,
                      calls |-> h.calls \o rest.calls] :
                        rest \in replace_user_mentions(Tail(text), h.cache)} :
                    h \in heads }

process_message(message, cache) ==
  {[msg |-> [message EXCEPT !.text = r.text], cache |-> r.cache, calls |-> r.calls] :
      r \in replace_user_mentions(message.text, cache)}

\* [self.message_processor.process_message(msg) for msg in messages]
RECURSIVE process_messages(_, _)
process_messages(messages, cache) ==
  IF messages = <<>>
    THEN {[msgs |-> <<>>, cache |-> cache, calls |-> <<>>]}
    ELSE UNION { {[msgs |-> <<h.msg>> \o rest.msgs,
                   cache |-> rest.cache,
                   calls |-> h.calls \o rest.calls] :
                     rest \in process_messages(Tail(messages), h.cache)} :
                 h \in process_message(Head(messages), cache) }

(***************************************************************************)
(* Decisions of the two pagination loops.                                  *)
(***************************************************************************)
\* http_client.get(...) or response.raise_for_status() raises a RequestException
request_fails(resp) == resp.kind \in {"transport", "status_429"}

\* a slip in should_join: the auto_join flag is not consulted
should_join_unconditionally(msg, join_enabled) == msg = "not_in_channel"

\* error_msg == "not_in_channel" and self.config.auto_join
should_join(msg, join_enabled) == msg = "not_in_channel" /\ join_enabled

\* a slip in with_cursor: the cursor is interpreted, an empty one is left out
with_cursor_interpreted(p, cursor) ==
  [p EXCEPT !.cursor = IF cursor = "" THEN Absent ELSE cursor]

\* a slip in with_cursor: the cursor received is not sent back
with_cursor_dropped(p, cursor) == p

\* params["cursor"] = data["response_metadata"]["next_cursor"]
with_cursor(p, cursor) == [p EXCEPT !.cursor = cursor]

\* a slip in retry_params: the retry starts over from the first page
retry_params_without_cursor(p) == [p EXCEPT !.cursor = Absent]

\* params of the GET that follows a successful join
retry_params(p) == p

\* a slip in has_next_cursor: the loop never sees the end of the stream
has_next_cursor_always(resp) == TRUE

\* "next_cursor" in data.get("response_metadata", {})
has_next_cursor(resp) == resp.cursor # Absent

\* a slip in extend: the new page is put in front of the accumulated ones
extend_in_front(all, processed) == processed \o all

\* all_messages.extend(processed_messages)
extend(all, processed) == all \o processed

\* a slip in has_thread: reply_count is not consulted
has_thread_ts_only(msg) == msg.thread_ts # NoTs

\* msg.get("thread_ts") is not None or msg.get("reply_count", 0) > 0
has_thread(msg) == msg.thread_ts # NoTs \/ msg.reply_count > 0

\* truth value of msg.get("thread_replies")
replies_attached(msg) == msg.has_thread_replies /\ msg.thread_replies # <<>>

\* a slip in needs_thread: every message is taken for a thread root
needs_thread_always(msg) == TRUE

\* has_thread and not msg.get("thread_replies")
needs_thread(msg) == has_thread(msg) /\ ~replies_attached(msg)

\* msg.get("thread_ts") or msg.get("ts")
thread_ts_of(msg) == IF msg.thread_ts # NoTs THEN msg.thread_ts ELSE msg.ts

\* first message at or after position i whose thread is to be downloaded
next_thread(msgs, i) ==
  LET todo == {j \in i..Len(msgs) : needs_thread(msgs[j])}
  IN IF todo = {} THEN Len(msgs) + 1
     ELSE CHOOSE j \in todo : \A k \in todo : j <= k

(***************************************************************************)
(* SlackDownloader.fetch_messages                                          *)
(***************************************************************************)
\* SlackConfig.start_date and end_date of the session: a datetime, in half
\* seconds since the epoch, or None
config_start_date == [given |-> TRUE, at |-> 7]
config_end_date == [given |-> FALSE, at |-> 0]

\* str(int(date.timestamp()))
convert_date_to_ts(date) == ToString(date.at \div 2)

\* params of fetch_messages before the loop, lines 246-258; the token of the
\* session is a bot token, so include_all_metadata is not set
history_params ==
  [channel |-> channel_id,
   limit |-> SLACK_BATCH_SIZE,
   oldest |-> IF config_start_date.given THEN convert_date_to_ts(config_start_date) ELSE Absent,
   latest |-> IF config_end_date.given THEN convert_date_to_ts(config_end_date) ELSE Absent,
   include_all_metadata |-> Absent,
   cursor |-> Absent]

\* params of fetch_thread_messages before the loop, lines 365-373
thread_params(thread_ts) ==
  [channel |-> channel_id, ts |-> thread_ts, limit |-> SLACK_BATCH_SIZE,
   include_all_metadata |-> Absent, cursor |-> Absent]

\* SlackDownloader.__init__ with the given SlackConfig.auto_join
DownloaderInit(join_enabled) ==
  /\ auto_join = join_enabled
  /\ users_cache = <<>>
  /\ pc = "start"
  /\ params = history_params
  /\ all_messages = <<>>
  /\ page = 1
  /\ processed_messages = <<>>
  /\ idx = 1
  /\ data_cursor = Absent
  /\ error = NoError
  /\ error_msg = ""
  /\ t_pc = "off"
  /\ t_caller = ""
  /\ t_params = thread_params(NoTs)
  /\ t_all = <<>>
  /\ t_page = 1
  /\ t_error = NoError
  /\ t_error_msg = ""
  /\ served = 0
  /\ trace = <<>>

\* the caller invokes fetch_messages: lines 245-262
fetch_messages ==
  /\ pc = "start"
  /\ pc' = "get"
  /\ params' = history_params
  /\ all_messages' = <<>>
  /\ page' = 1
  /\ UNCHANGED <<auto_join, users_cache, processed_messages, idx, data_cursor, error,
                 error_msg, thrVars, served, trace>>

\* fetch_messages raises
fm_raise(type, msg, calls) ==
  /\ pc' = "raised"
  /\ error' = Raised(type, msg)
  /\ trace' = trace \o calls
  /\ UNCHANGED <<auto_join, users_cache, params, all_messages, page, processed_messages,
                 idx, data_cursor, error_msg, thrVars, served>>

\* lines 310-311: the page's messages are processed, the thread loop starts
fm_page(resp, req) ==
  \E r \in process_messages(resp.messages, users_cache) :
    /\ users_cache' = r.cache
    /\ processed_messages' = r.msgs
    /\ idx' = 1
    /\ data_cursor' = resp.cursor
    /\ served' = served + Len(resp.messages)
    /\ trace' = (trace \o <<req>>) \o r.calls
    /\ pc' = "threads"
    /\ UNCHANGED <<auto_join, params, all_messages, page, error, error_msg, thrVars>>

\* one page request: lines 264-272, 302-311, 342-344
fetch_messages_get ==
  /\ pc = "get"
  /\ CallsLeft
  /\ \E resp \in PageResponses(HistoryBodies) :
       LET req == Get(history_url, params, resp)
       IN CASE request_fails(resp) ->
                 fm_raise("RequestError", "Failed to connect to Slack API", <<req>>)
            [] resp.kind = "malformed" ->
                 fm_raise("KeyError", "messages", <<req>>)
            [] resp.kind = "error" ->
                 IF should_join(resp.error, auto_join)
                   THEN /\ pc' = "join"
                        /\ error_msg' = resp.error
                        /\ trace' = Append(trace, req)
                        /\ UNCHANGED <<auto_join, users_cache, params, all_messages, page,
                                       processed_messages, idx, data_cursor, error,
                                       thrVars, served>>
                   ELSE fm_raise("SlackAPIError", resp.error, <<req>>)
            [] OTHER -> fm_page(resp, req)

\* a slip in join_succeeded: only a join call that raises counts as failed
join_succeeded_unless_raised(jr) == jr # "raises"

\* join_result.get("ok"), when http_client.post and .json() have not raised
join_succeeded(jr) == jr = "ok"

\* the join of the auto-join branch: lines 275-282, 293-301
fetch_messages_join ==
  /\ pc = "join"
  /\ CallsLeft
  /\ \E jr \in JoinResponses :
       LET req == Post(join_url, [channel |-> channel_id], jr)
       IN IF join_succeeded(jr)
            THEN /\ pc' = "retry"
                 /\ trace' = Append(trace, req)
                 /\ UNCHANGED <<auto_join, users_cache, histVars, error, thrVars, served>>
            ELSE fm_raise("SlackAPIError", error_msg, <<req>>)

\* a slip in retry_error: a transport failure of the retry is not wrapped
retry_error_unwrapped(resp, original) ==
  IF request_fails(resp)
    THEN Raised("RequestError", "Failed to connect to Slack API")
    ELSE Raised("SlackAPIError", resp.error)

\* the exception a failed retry ends in, lines 285-301: an ok:false body
\* reassigns error_msg (line 291); whatever is raised inside the try, a
\* RequestException included, is caught at line 298 and raised again as
\* SlackAPIError(error_msg)
retry_error(resp, original) ==
  Raised("SlackAPIError", IF request_fails(resp) THEN original ELSE resp.error)

\* the retry after a successful join: lines 283-292, 298-301, 310-311
fetch_messages_retry ==
  /\ pc = "retry"
  /\ CallsLeft
  /\ \E resp \in PageResponses(HistoryBodies) :
       LET req == Get(history_url, retry_params(params), resp)
           exc == retry_error(resp, error_msg)
       IN CASE request_fails(resp) \/ resp.kind = "error" ->
                 fm_raise(exc.type, exc.msg, <<req>>)
            [] resp.kind = "malformed" -> fm_raise("KeyError", "messages", <<req>>)
            [] OTHER -> fm_page(resp, req)

\* the thread loop reaches a message with a thread: lines 314-323
fetch_messages_expand ==
  /\ pc = "threads"
  /\ t_pc = "off"
  /\ LET j == next_thread(processed_messages, idx)
     IN /\ j <= Len(processed_messages)
        /\ idx' = j
        /\ t_pc' = "get"
        /\ t_caller' = "fetch_messages"
        /\ t_params' = thread_params(thread_ts_of(processed_messages[j]))
        /\ t_all' = <<>>
        /\ t_page' = 1
        /\ t_error' = NoError
        /\ trace' = Append(trace, Call("fetch_thread_messages",
                                       thread_ts_of(processed_messages[j]),
                                       processed_messages[j].ts))
  /\ UNCHANGED <<auto_join, users_cache, pc, params, all_messages, page,
                 processed_messages, data_cursor, error, error_msg, t_error_msg, served>>

\* a slip in thread_result: the replies fetched before the failure are kept
thread_result_partial(state, replies) == replies

\* a slip in thread_result: the threads of the replies are expanded in turn
thread_result_expanded(state, replies) ==
  IF state = "returned"
    THEN [i \in 1..Len(replies) |->
            [replies[i] EXCEPT !.has_thread_replies = TRUE,
                               !.thread_replies = <<replies[i]>>]]
    ELSE <<>>

\* msg["thread_replies"] after the try of lines 322-330: the replies when
\* fetch_thread_messages returned, [] when it raised
thread_result(state, replies) == IF state = "returned" THEN replies ELSE <<>>

\* fetch_thread_messages came back: lines 323-330
fetch_messages_attach ==
  /\ pc = "threads"
  /\ t_pc \in {"returned", "raised"}
  /\ t_caller = "fetch_messages"
  /\ processed_messages' =
       [processed_messages EXCEPT ![idx].thread_replies = thread_result(t_pc, t_all),
                                  ![idx].has_thread_replies = TRUE]
  /\ trace' = IF t_pc = "returned" THEN Append(trace, Sleep(rate_limit_delay)) ELSE trace
  /\ idx' = idx + 1
  /\ t_pc' = "off"
  /\ UNCHANGED <<auto_join, users_cache, pc, params, all_messages, page, data_cursor,
                 error, error_msg, t_caller, t_params, t_all, t_page, t_error,
                 t_error_msg, served>>

\* the thread loop is over: lines 332-340
fetch_messages_page_done ==
  /\ pc = "threads"
  /\ t_pc = "off"
  /\ next_thread(processed_messages, idx) > Len(processed_messages)
  /\ all_messages' = extend(all_messages, processed_messages)
  /\ IF has_next_cursor([cursor |-> data_cursor])
       THEN /\ params' = with_cursor(params, data_cursor)
            /\ page' = page + 1
            /\ trace' = Append(trace, Sleep(rate_limit_delay))
            /\ pc' = "get"
       ELSE /\ pc' = "done"
            /\ UNCHANGED <<params, page, trace>>
  /\ UNCHANGED <<auto_join, users_cache, processed_messages, idx, data_cursor, error,
                 error_msg, thrVars, served>>

(***************************************************************************)
(* SlackDownloader.fetch_thread_messages                                   *)
(***************************************************************************)
\* the CLI invokes fetch_thread_messages(thread_ts) itself: lines 364-376
fetch_thread_messages ==
  /\ pc = "start"
  /\ pc' = "thread_only"
  /\ t_pc' = "get"
  /\ t_caller' = "cli"
  /\ t_params' = thread_params(OtherTs)
  /\ t_all' = <<>>
  /\ t_page' = 1
  /\ t_error' = NoError
  /\ trace' = Append(trace, Call("fetch_thread_messages", OtherTs, NoTs))
  /\ UNCHANGED <<auto_join, users_cache, histVars, error, t_error_msg, served>>

\* fetch_thread_messages raises
ft_raise(type, msg, calls) ==
  /\ t_pc' = "raised"
  /\ t_error' = Raised(type, msg)
  /\ trace' = trace \o calls
  /\ UNCHANGED <<auto_join, users_cache, pc, histVars, error, t_caller, t_params, t_all,
                 t_page, t_error_msg, served>>

\* lines 424-434: the page's replies are processed and accumulated
ft_page(resp, req) ==
  \E r \in process_messages(resp.messages, users_cache) :
    /\ users_cache' = r.cache
    /\ t_all' = extend(t_all, r.msgs)
    /\ served' = served + Len(resp.messages)
    /\ IF has_next_cursor(resp)
         THEN /\ t_params' = with_cursor(t_params, resp.cursor)
              /\ t_page' = t_page + 1
              /\ trace' = ((trace \o <<req>>) \o r.calls) \o <<Sleep(rate_limit_delay)>>
              /\ t_pc' = "get"
         ELSE /\ t_pc' = "returned"
              /\ trace' = (trace \o <<req>>) \o r.calls
              /\ UNCHANGED <<t_params, t_page>>
    /\ UNCHANGED <<auto_join, pc, histVars, error, t_caller, t_error, t_error_msg>>

\* one page request: lines 378-386, 416-434, 436-438
fetch_thread_messages_get ==
  /\ t_pc = "get"
  /\ CallsLeft
  /\ \E resp \in PageResponses(ReplyBodies) :
       LET req == Get(replies_url, t_params, resp)
       IN CASE request_fails(resp) ->
                 ft_raise("RequestError", "Failed to connect to Slack API", <<req>>)
            [] resp.kind = "malformed" ->
                 ft_raise("KeyError", "messages", <<req>>)
            [] resp.kind = "error" ->
                 IF should_join(resp.error, auto_join)
                   THEN /\ t_pc' = "join"
                        /\ t_error_msg' = resp.error
                        /\ trace' = Append(trace, req)
                        /\ UNCHANGED <<auto_join, users_cache, pc, histVars, error,
                                       t_caller, t_params, t_all, t_page, t_error, served>>
                   ELSE ft_raise("SlackAPIError", resp.error, <<req>>)
            [] OTHER -> ft_page(resp, req)

\* the join of the auto-join branch: lines 389-396, 407-415
fetch_thread_messages_join ==
  /\ t_pc = "join"
  /\ CallsLeft
  /\ \E jr \in JoinResponses :
       LET req == Post(join_url, [channel |-> channel_id], jr)
       IN IF join_succeeded(jr)
            THEN /\ t_pc' = "retry"
                 /\ trace' = Append(trace, req)
                 /\ UNCHANGED <<auto_join, users_cache, pc, histVars, error, t_caller,
                                t_params, t_all, t_page, t_error, t_error_msg, served>>
            ELSE ft_raise("SlackAPIError", t_error_msg, <<req>>)

\* the retry after a successful join: lines 397-406, 412-415, 424-434
fetch_thread_messages_retry ==
  /\ t_pc = "retry"
  /\ CallsLeft
  /\ \E resp \in PageResponses(ReplyBodies) :
       LET req == Get(replies_url, retry_params(t_params), resp)
           exc == retry_error(resp, t_error_msg)
       IN CASE request_fails(resp) \/ resp.kind = "error" ->
                 ft_raise(exc.type, exc.msg, <<req>>)
            [] resp.kind = "malformed" -> ft_raise("KeyError", "messages", <<req>>)
            [] OTHER -> ft_page(resp, req)

(***************************************************************************)
(* SlackChannelLister (src/slack/channel_lister.py)                        *)
(***************************************************************************)
\* conversations.list requests in one list_channels call
MaxListCalls == 5
\* "limit": 1000
LIST_LIMIT == 1000
\* response.headers.get("Retry-After", 60)
DEFAULT_RETRY_AFTER == 60
\* time.sleep(0.5) between pages, in milliseconds
LIST_PAGE_PAUSE == 500

VARIABLES
  include_private,   \* list_channels: include_private
  cl_pc,             \* where list_channels stands
  cl_part,           \* which _get_channels call of list_channels is running
  cl_params,         \* _get_channels: params
  channels,          \* _get_channels: channels
  all_channels,      \* list_channels: all_channels
  cl_error,          \* exception list_channels ended with
  cl_served,         \* number of channels the service has handed out
  cl_trace           \* calls to http_client and time.sleep, in order

clVars == <<include_private, cl_pc, cl_part, cl_params, channels, all_channels,
            cl_error, cl_served, cl_trace>>

list_url == <<base_url, "conversations.list">>

\* list_channels: include_archived (its default)
include_archived == FALSE

PyBool(b) == IF b THEN "True" ELSE "False"

\* the params literal of the k-th _get_channels call of list_channels
partition_params(k) ==
  CASE k = 1 -> [types |-> "public_channel",
                 exclude_archived |-> PyBool(~include_archived),
                 limit |-> LIST_LIMIT, cursor |-> Absent]
    [] k = 2 -> [types |-> "private_channel",
                 exclude_archived |-> PyBool(~include_archived),
                 limit |-> LIST_LIMIT, cursor |-> Absent]
    [] k = 3 -> [types |-> "im", exclude_archived |-> Absent,
                 limit |-> LIST_LIMIT, cursor |-> Absent]
    [] OTHER -> [types |-> "mpim", exclude_archived |-> Absent,
                 limit |-> LIST_LIMIT, cursor |-> Absent]

\* a slip in partition_count: the private partitions are always requested
partition_count_all(private) == 4

\* number of _get_channels calls list_channels makes
partition_count(private) == IF private THEN 4 ELSE 1

\* Retry-After header values the service sends, and int() of them
RetryAfterHeaders == {Absent, "2"}
int_of(h) == IF h = "2" THEN 2 ELSE 0
\* int(response.headers.get("Retry-After", 60))
retry_after(header) == IF header = Absent THEN DEFAULT_RETRY_AFTER ELSE int_of(header)

\* channel number n of the session, listed under `types`
Channel(n, types) == [id |-> <<"ch", n>>, types |-> types]

ListResponses ==
  {[kind |-> "ok", error |-> "", header |-> Absent, cursor |-> c,
    channels |-> [i \in 1..n |-> Channel(cl_served + i, cl_params.types)]] :
       n \in {0, 2}, c \in {Absent, "", "c1"}}
    \cup {[kind |-> "error", error |-> "ratelimited", header |-> h, cursor |-> Absent,
           channels |-> <<>>] : h \in RetryAfterHeaders}
    \cup {[kind |-> "error", error |-> "invalid_auth", header |-> Absent,
           cursor |-> Absent, channels |-> <<>>],
          [kind |-> "status_429", error |-> "ratelimited", header |-> "2",
           cursor |-> Absent, channels |-> <<>>],
          [kind |-> "transport", error |-> "", header |-> Absent, cursor |-> Absent,
           channels |-> <<>>]}

\* error_msg == "ratelimited"
is_rate_limited(msg) == msg = "ratelimited"

\* "next_cursor" in data["response_metadata"] and it is not empty
list_has_more(resp) == resp.cursor # Absent /\ resp.cursor # ""

ListCallsLeft == Count(cl_trace, IsRequest) < MaxListCalls

ListerInit ==
  /\ include_private = TRUE
  /\ cl_pc = "start"
  /\ cl_part = 1
  /\ cl_params = partition_params(1)
  /\ channels = <<>>
  /\ all_channels = <<>>
  /\ cl_error = NoError
  /\ cl_served = 0
  /\ cl_trace = <<>>

\* list_channels(include_private) is called and makes its first _get_channels
\* call: lines 43-50, 96-97
list_channels ==
  /\ cl_pc = "start"
  /\ include_private' \in BOOLEAN
  /\ cl_pc' = "get"
  /\ cl_part' = 1
  /\ cl_params' = partition_params(1)
  /\ channels' = <<>>
  /\ all_channels' = <<>>
  /\ UNCHANGED <<cl_error, cl_served, cl_trace>>

\* _get_channels raises and list_channels lets it through
cl_raise(msg, calls) ==
  /\ cl_pc' = "raised"
  /\ cl_error' = Raised("SlackAPIError", msg)
  /\ cl_trace' = cl_trace \o calls
  /\ UNCHANGED <<include_private, cl_part, cl_params, channels, all_channels, cl_served>>

\* _get_channels returns: list_channels extends all_channels and goes on to the
\* next partition or returns (lines 51-80)
cl_return(got, calls) ==
  /\ all_channels' = extend(all_channels, got)
  /\ cl_trace' = cl_trace \o calls
  /\ IF cl_part < partition_count(include_private)
       THEN /\ cl_part' = cl_part + 1
            /\ cl_params' = partition_params(cl_part + 1)
            /\ channels' = <<>>
            /\ cl_pc' = "get"
       ELSE /\ cl_pc' = "done"
            /\ channels' = got
            /\ UNCHANGED <<cl_part, cl_params>>
  /\ UNCHANGED <<include_private, cl_error>>

\* one iteration of the loop of _get_channels: lines 99-130
get_channels ==
  /\ cl_pc = "get"
  /\ ListCallsLeft
  /\ \E resp \in ListResponses :
       LET req == Get(list_url, cl_params, resp)
       IN CASE request_fails(resp) ->
                 /\ cl_raise("Error de conexion", <<req>>)
            [] resp.kind = "error" /\ is_rate_limited(resp.error) ->
                 /\ cl_trace' = cl_trace \o <<req, Sleep(retry_after(resp.header) * 1000)>>
                 /\ UNCHANGED <<include_private, cl_pc, cl_part, cl_params, channels,
                                all_channels, cl_error, cl_served>>
            [] resp.kind = "error" /\ ~is_rate_limited(resp.error) ->
                 /\ cl_raise(resp.error, <<req>>)
            [] OTHER ->
                 /\ cl_served' = cl_served + Len(resp.channels)
                 /\ IF list_has_more(resp)
                      THEN /\ channels' = extend(channels, resp.channels)
                           /\ cl_params' = with_cursor(cl_params, resp.cursor)
                           /\ cl_trace' = cl_trace \o <<req, Sleep(LIST_PAGE_PAUSE)>>
                           /\ UNCHANGED <<include_private, cl_pc, cl_part, all_channels,
                                          cl_error>>
                      ELSE cl_return(extend(channels, resp.channels), <<req>>)

(***************************************************************************)
(* SlackPaginator (src/slack/pagination.py)                                *)
(***************************************************************************)
\* client_method calls in one fetch_all
MaxClientCalls == 5
\* SlackPaginator.__init__: max_retries default
max_retries == 3
\* SlackPaginator.__init__: rate_limit_delay default 1.0, in milliseconds
pg_rate_limit_delay == 1000

VARIABLES
  pg_pc,          \* where fetch_all stands
  method_args,    \* SlackPaginator.method_args
  all_results,    \* fetch_all: all_results
  next_cursor,    \* fetch_all: next_cursor (Absent is None)
  attempt,        \* _make_api_call: attempt
  pg_raised,      \* whether client_method has raised during this fetch_all
  pg_served,      \* number of items the client method has handed out
  pg_trace        \* calls to client_method and time.sleep, in order

pgVars == <<pg_pc, method_args, all_results, next_cursor, attempt, pg_raised,
            pg_served, pg_trace>>

ClientCall(args, resp) == [op |-> "call", fn |-> "client_method", params |-> args,
                           resp |-> resp]
IsClientCall(e) == e.op = "call"

\* what client_method can do: return a dict, or raise
ClientResponses ==
  {[kind |-> "ok", has_messages |-> TRUE, cursor |-> c,
    messages |-> [i \in 1..n |-> <<"item", pg_served + i>>]] :
       n \in {0, 2}, c \in {Absent, "", "c1"}}
    \cup {[kind |-> "error_dict", has_messages |-> FALSE, cursor |-> Absent,
           messages |-> <<>>],
          [kind |-> "raises", has_messages |-> FALSE, cursor |-> Absent,
           messages |-> <<>>]}

\* {"ok": False, "error": "Max retries exceeded"}
MaxRetriesExceeded == [kind |-> "error_dict", has_messages |-> FALSE, cursor |-> Absent,
                       messages |-> <<>>]

\* truth value of a cursor: None and "" are false
truthy(cursor) == cursor # Absent /\ cursor # ""

ClientCallsLeft == Count(pg_trace, IsClientCall) < MaxClientCalls

PaginatorInit ==
  /\ pg_pc = "start"
  /\ method_args = [cursor |-> Absent]
  /\ all_results = <<>>
  /\ next_cursor = Absent
  /\ attempt = 0
  /\ pg_raised = FALSE
  /\ pg_served = 0
  /\ pg_trace = <<>>

\* fetch_all is called: lines 21-27
fetch_all ==
  /\ pg_pc = "start"
  /\ pg_pc' = "call"
  /\ all_results' = <<>>
  /\ next_cursor' = Absent
  /\ attempt' = 0
  /\ UNCHANGED <<method_args, pg_raised, pg_served, pg_trace>>

\* fetch_all receives `response` from _make_api_call: lines 32-43, 26-27
pg_response(response, calls) ==
  /\ all_results' = IF response.has_messages
                      THEN extend(all_results, response.messages)
                      ELSE all_results
  /\ next_cursor' = IF response.cursor = Absent THEN "" ELSE response.cursor
  /\ pg_served' = pg_served + Len(response.messages)
  /\ pg_trace' = pg_trace \o calls
  /\ attempt' = 0
  /\ IF truthy(response.cursor)
       THEN /\ method_args' = with_cursor(method_args, response.cursor)
            /\ pg_pc' = "call"
       ELSE /\ pg_pc' = "done"
            /\ UNCHANGED method_args

\* a slip in may_retry: the number of attempts is not bounded
may_retry_always(n) == TRUE

\* attempts left after the one that has just raised: attempt < max_retries - 1
may_retry(n) == n < max_retries - 1

\* one attempt of _make_api_call: lines 47-57
make_api_call ==
  /\ pg_pc = "call"
  /\ ClientCallsLeft
  /\ \E resp \in ClientResponses :
       LET call == ClientCall(method_args, resp)
       IN IF resp.kind = "raises"
            THEN IF may_retry(attempt)
                   THEN /\ attempt' = attempt + 1
                        /\ pg_raised' = TRUE
                        /\ pg_trace' = pg_trace \o <<call, Sleep(pg_rate_limit_delay * 2)>>
                        /\ UNCHANGED <<pg_pc, method_args, all_results, next_cursor,
                                       pg_served>>
                   ELSE /\ pg_response(MaxRetriesExceeded, <<call>>)
                        /\ pg_raised' = TRUE
            ELSE /\ pg_response(resp, <<call, Sleep(pg_rate_limit_delay)>>)
                 /\ UNCHANGED pg_raised

(***************************************************************************)
(* SlackMessageFilter (src/slack/filters.py)                               *)
(* Python lists are objects: `lists` is the heap of the message lists of   *)
(* a run, a list being known by its position in it.                        *)
(***************************************************************************)
\* filter calls in one run
MaxFilterCalls == 2

VARIABLES
  f_pc,      \* where the caller of the filters stands
  lists,     \* the message lists of the run, by reference
  f_calls    \* the filter calls made: operation, argument list, returned list

fVars == <<f_pc, lists, f_calls>>

\* a message as the filters read it: msg.get('user'), msg.get('ts'),
\* msg.get('reply_count', 0), 'reactions' in msg
FilterMessage(user, ts, reply_count, reactions) ==
  [user |-> user, ts |-> ts, reply_count |-> reply_count, reactions |-> reactions]

FilterMessages ==
  { FilterMessage("U1", Ts(1), 0, FALSE),
    FilterMessage("U2", Ts(2), 1, TRUE),
    FilterMessage("U1", Ts(3), 1, FALSE),
    FilterMessage("U1", NoTs, 0, TRUE) }

\* the lists the caller starts from: every list of at most two messages and
\* some of three
FilterInputs ==
  {<<>>}
    \cup {<<a>> : a \in FilterMessages}
    \cup {<<a, b>> : a, b \in FilterMessages}
    \cup {<<a, FilterMessage("U2", Ts(2), 1, TRUE), a>> : a \in FilterMessages}

\* an optional datetime: None, or the instant `at` (seconds since the epoch)
NoDate == [given |-> FALSE, at |-> 0]
Date(n) == [given |-> TRUE, at |-> n]
DateBounds == {NoDate, Date(2)}

\* float(message.get('ts', 0)) and datetime.fromtimestamp
message_date(message) == IF message.ts = NoTs THEN 0 ELSE message.ts[2]

\* a slip in by_date_range: a message at a bound is dropped
in_date_range_exclusive(message, start_date, end_date) ==
  /\ ~(start_date.given /\ message_date(message) <= start_date.at)
  /\ ~(end_date.given /\ message_date(message) >= end_date.at)

\* the body of the loop of by_date_range: lines 17-27
in_date_range(message, start_date, end_date) ==
  /\ ~(start_date.given /\ message_date(message) < start_date.at)
  /\ ~(end_date.given /\ message_date(message) > end_date.at)

\* by_date_range: lines 10-29
by_date_range(messages, start_date, end_date) ==
  IF ~start_date.given /\ ~end_date.given
    THEN messages
    ELSE SelectSeq(messages, LAMBDA m : in_date_range(m, start_date, end_date))

\* a slip in by_user: the messages of other users are removed from the list
\* while it is iterated, which skips the message after each removed one
RECURSIVE remove_while_iterating(_, _, _)
remove_while_iterating(messages, i, user_id) ==
  IF i > Len(messages) THEN messages
  ELSE IF messages[i].user = user_id
    THEN remove_while_iterating(messages, i + 1, user_id)
    ELSE remove_while_iterating(SubSeq(messages, 1, i - 1)
                                  \o SubSeq(messages, i + 1, Len(messages)),
                                i + 1, user_id)
by_user_removing(messages, user_id) == remove_while_iterating(messages, 1, user_id)

\* by_user: lines 31-34
by_user(messages, user_id) == SelectSeq(messages, LAMBDA m : m.user = user_id)

\* by_has_replies: lines 36-39
by_has_replies(messages) == SelectSeq(messages, LAMBDA m : m.reply_count > 0)

\* by_has_reactions: lines 41-44
by_has_reactions(messages) == SelectSeq(messages, LAMBDA m : m.reactions)

\* the filter calls of a run: operation and arguments
FilterOp(name, user_id, start_date, end_date) ==
  [name |-> name, user_id |-> user_id, start_date |-> start_date, end_date |-> end_date]
FilterOps ==
  {FilterOp("by_user", u, NoDate, NoDate) : u \in Users}
    \cup {FilterOp("by_date_range", "", s, e) : s, e \in DateBounds}
    \cup {FilterOp("by_has_replies", "", NoDate, NoDate),
          FilterOp("by_has_reactions", "", NoDate, NoDate)}

\* the list a filter call computes
filtered(op, messages) ==
  CASE op.name = "by_user" -> by_user(messages, op.user_id)
    [] op.name = "by_date_range" -> by_date_range(messages, op.start_date, op.end_date)
    [] op.name = "by_has_replies" -> by_has_replies(messages)
    [] OTHER -> by_has_reactions(messages)

\* `return messages` (line 14) hands the argument itself back; every other
\* path builds a new list
returns_argument(op) ==
  op.name = "by_date_range" /\ ~op.start_date.given /\ ~op.end_date.given

FilterInit ==
  /\ f_pc = "start"
  /\ lists = <<>>
  /\ f_calls = <<>>

\* the caller holds a list of messages (cli.py line 733)
filter_input ==
  /\ f_pc = "start"
  /\ \E messages \in FilterInputs : lists' = <<messages>>
  /\ f_pc' = "filtering"
  /\ UNCHANGED f_calls

\* one call of a filter on the list the caller holds, which is the result of
\* the call before: messages = SlackMessageFilter.by_...(messages, ...)
\* (cli.py lines 736-750)
apply_filter ==
  /\ f_pc = "filtering"
  /\ Len(f_calls) < MaxFilterCalls
  /\ \E op \in FilterOps :
       LET arg == IF f_calls = <<>> THEN 1 ELSE f_calls[Len(f_calls)].result
           result == IF returns_argument(op) THEN arg ELSE Len(lists) + 1
       IN /\ lists' = IF returns_argument(op)
                        THEN lists
                        ELSE Append(lists, filtered(op, lists[arg]))
          /\ f_calls' = Append(f_calls, [op |-> op, arg |-> arg, result |-> result,
                                         before |-> lists[arg]])
  /\ UNCHANGED f_pc

\* the message the caller appends
AppendedMessage == FilterMessage("U2", Ts(4), 0, FALSE)

\* the caller changes the list the last call returned: it appends a message
caller_appends ==
  /\ f_pc = "filtering"
  /\ f_calls # <<>>
  /\ lists' = [lists EXCEPT ![f_calls[Len(f_calls)].result] = Append(@, AppendedMessage)]
  /\ f_pc' = "changed"
  /\ UNCHANGED f_calls

(***************************************************************************)
(* JSONExporter (src/exporters/json_exporter.py)                           *)
(***************************************************************************)
\* export_messages calls in one run
MaxExports == 2
\* the wall clock, in half seconds, stops here
MaxNow == 2

VARIABLES
  ex_pc,     \* whether a JSONExporter exists
  now,       \* the wall clock: half seconds since the run began
  files,     \* the output directory: path -> content of the file
  exports    \* the export_messages calls made, with path and content written

exVars == <<ex_pc, now, files, exports>>

\* JSON null
Null == <<"null">>

\* the lists of messages exported
ExportInputs ==
  { <<>>,
    << FilterMessage("U1", Ts(1), 0, FALSE),
       FilterMessage("U2", Ts(2), 1, TRUE),
       FilterMessage("U1", Ts(3), 1, FALSE) >> }

ExportChannels == {"C1"}

\* datetime.now().strftime("%Y%m%d_%H%M%S"): the clock cut to whole seconds
strftime_seconds(t) == <<"YmdHMS", t \div 2>>

\* strftime('%Y%m%d') of a bound: the instant cut to its day
strftime_day(date) == <<"Ymd", date.at \div 86400>>

\* datetime.isoformat()
isoformat(date) == <<"iso", date.at>>

\* date_range of lines 44-48
date_range(start_date, end_date) ==
  (IF start_date.given THEN <<"_from_", strftime_day(start_date)>> ELSE <<>>)
    \o (IF end_date.given THEN <<"_to_", strftime_day(end_date)>> ELSE <<>>)

\* filename of lines 50-53
filename(channel, start_date, end_date, timestamp) ==
  <<"slack_messages_", channel>> \o date_range(start_date, end_date)
    \o <<"_", timestamp, ".json">>

\* a slip in export_data: the two bounds are written to each other's field
export_data_swapped(messages, channel, start_date, end_date, timestamp) ==
  [channel_id |-> channel,
   download_date |-> timestamp,
   start_date |-> IF end_date.given THEN isoformat(end_date) ELSE Null,
   end_date |-> IF start_date.given THEN isoformat(start_date) ELSE Null,
   message_count |-> Len(messages),
   messages |-> messages]

\* data of lines 58-65
export_data(messages, channel, start_date, end_date, timestamp) ==
  [channel_id |-> channel,
   download_date |-> timestamp,
   start_date |-> IF start_date.given THEN isoformat(start_date) ELSE Null,
   end_date |-> IF end_date.given THEN isoformat(end_date) ELSE Null,
   message_count |-> Len(messages),
   messages |-> messages]

\* JSONExporter.export, lines 19-22: open(output_path, "w") creates the file
\* or replaces its content
export(data, output_path, dir) == (output_path :> data) @@ dir

ExporterInit ==
  /\ ex_pc = "start"
  /\ now = 0
  /\ files = <<>>
  /\ exports = <<>>

\* the run creates its exporter (cli.py)
JSONExporter ==
  /\ ex_pc = "start"
  /\ ex_pc' = "ready"
  /\ UNCHANGED <<now, files, exports>>

\* half a second passes
clock_tick ==
  /\ ex_pc = "ready"
  /\ now < MaxNow
  /\ now' = now + 1
  /\ UNCHANGED <<ex_pc, files, exports>>

\* export_messages: lines 24-67
export_messages ==
  /\ ex_pc = "ready"
  /\ Len(exports) < MaxExports
  /\ \E messages \in ExportInputs, channel \in ExportChannels,
        start_date \in DateBounds, end_date \in DateBounds :
       LET timestamp == strftime_seconds(now)
           path == filename(channel, start_date, end_date, timestamp)
           data == export_data(messages, channel, start_date, end_date, timestamp)
       IN /\ files' = export(data, path, files)
          /\ exports' = Append(exports,
                               [messages |-> messages, channel |-> channel,
                                start_date |-> start_date, end_date |-> end_date,
                                at |-> now, path |-> path, data |-> data])
  /\ UNCHANGED <<ex_pc, now>>

(***************************************************************************)
(* FileCache and TranscriptionCacheService (src/transcription/cache.py)    *)
(* The cache directory is the environment: opening, writing and removing   *)
(* a file can fail, and the code swallows those failures.                  *)
(***************************************************************************)
VARIABLES
  c_pc,          \* whether a FileCache has been constructed
  cache_dir,     \* the files of FileCache.cache_dir: file name -> content
  promised,      \* key -> value of the last set(key, value) called with no
                 \* set or invalidate of that key called since, or Absent
  io_failed,     \* whether an operation on a cache file has failed
  c_last         \* the last cache operation and what it returned

cVars == <<c_pc, cache_dir, promised, io_failed, c_last>>

\* the transcriptions that get cached
Transcriptions == {"Transcription 1", "Transcription 2"}

\* a string that is hashed or used as a key is a sequence of its parts
Text(s) == <<s>>

\* hashlib.md5(s.encode()).hexdigest(): the digest of s, taken to differ for
\* the few different strings of a run
md5(s) == <<"md5">> \o s

\* a slip in get_cache_path: the key does not enter the file name
get_cache_path_shared(key) == md5(Text("")) \o Text(".json")

\* FileCache._get_cache_path: the file name under cache_dir
get_cache_path(key) == md5(key) \o Text(".json")

\* json.dump(cache_data, f): the content of a cache file
CacheData(value, timestamp) == [transcription |-> value, timestamp |-> timestamp]
\* a file that open(path, 'w') has truncated and json.dump has not completed
Truncated == [transcription |-> Absent, timestamp |-> <<"truncated">>]

\* os.path.exists(path)
exists(fs, path) == path \in DOMAIN fs
\* os.path.getmtime(path)
getmtime(fs, path) == <<"mtime">> \o path

\* how the file operations of one call end
SetOutcomes == {"ok", "open_fails", "write_fails"}
GetOutcomes == {"ok", "read_fails"}
InvalidateOutcomes == {"ok", "remove_fails"}

\* FileCache.set: the files afterwards; an IOError is logged and swallowed
set(fs, key, value, io) ==
  LET cache_path == get_cache_path(key)
      cache_data == CacheData(value, IF exists(fs, cache_path)
                                       THEN getmtime(fs, cache_path) ELSE Null)
  IN CASE io = "open_fails" -> fs
       [] io = "write_fails" -> (cache_path :> Truncated) @@ fs
       [] OTHER -> (cache_path :> cache_data) @@ fs

\* FileCache.get: Absent is None
get(fs, key, io) ==
  LET cache_path == get_cache_path(key)
  IN IF ~exists(fs, cache_path) THEN Absent
     ELSE IF io = "read_fails" \/ fs[cache_path] = Truncated THEN Absent
     ELSE fs[cache_path].transcription

\* FileCache.has
has(fs, key) == exists(fs, get_cache_path(key))

\* a slip in invalidate: the whole cache directory is emptied
invalidate_all(fs, key, io) == <<>>

\* FileCache.invalidate: the files afterwards
invalidate(fs, key, io) ==
  LET cache_path == get_cache_path(key)
  IN IF exists(fs, cache_path) /\ io = "ok"
       THEN [p \in DOMAIN fs \ {cache_path} |-> fs[p]]
       ELSE fs

\* the audio file of the run: os.path.abspath and os.stat of it
AudioFile == [path |-> "/tmp/sample.mp3", size |-> 19, mtime |-> 1]

\* the option dicts transcriptions are cached under
Options(diarization) ==
  [diarization |-> diarization, model_id |-> "whisper-1", provider |-> "openai"]
OptionSets == {Options(FALSE), Options(TRUE)}

\* json.dumps(x, sort_keys=True) of a bool, a string and a number
json_bool(b) == IF b THEN "true" ELSE "false"
json_str(s) == <<"\"", s, "\"">>
json_num(n) == <<ToString(n)>>
\* json.dumps(options, sort_keys=True): the members in key order
json_options(options) ==
  <<"{", "diarization", json_bool(options.diarization)>>
    \o <<"model_id">> \o json_str(options.model_id)
    \o <<"provider">> \o json_str(options.provider) \o <<"}">>
\* json.dumps(file_info, sort_keys=True)
json_dumps(file_info) ==
  <<"{", "mtime">> \o json_num(file_info.mtime)
    \o <<"options">> \o json_options(file_info.options)
    \o <<"path">> \o json_str(file_info.path)
    \o <<"size">> \o json_num(file_info.size) \o <<"}">>

\* a slip in generate_cache_key: the options do not enter the key
generate_cache_key_of_file(file, options) ==
  md5(<<"{", "mtime">> \o json_num(file.mtime) \o <<"path">> \o json_str(file.path)
        \o <<"size">> \o json_num(file.size) \o <<"}">>)

\* TranscriptionCacheService._generate_cache_key
generate_cache_key(file, options) ==
  LET file_info == [path |-> file.path, size |-> file.size, mtime |-> file.mtime,
                    options |-> options]
  IN md5(json_dumps(file_info))

\* the keys the cache is used with: those the service generates
CacheKeys == {generate_cache_key(AudioFile, o) : o \in OptionSets}

\* a call and what it returned: `text` for get (Absent is None), `found` for has
Returned(op, key, text, found) == [op |-> op, key |-> key, text |-> text, found |-> found]

CacheInit ==
  /\ c_pc = "start"
  /\ cache_dir = <<>>
  /\ promised = [k \in CacheKeys |-> Absent]
  /\ io_failed = FALSE
  /\ c_last = Returned("none", Text(""), Absent, FALSE)

\* FileCache(cache_dir) on a directory without cache files: lines 17-29
FileCache ==
  /\ c_pc = "start"
  /\ c_pc' = "ready"
  /\ UNCHANGED <<cache_dir, promised, io_failed, c_last>>

\* FileCache.set(key, value): lines 69-90
cache_set(key, value) ==
  /\ c_pc = "ready"
  /\ \E io \in SetOutcomes :
       /\ cache_dir' = set(cache_dir, key, value, io)
       /\ io_failed' = (io_failed \/ io # "ok")
  /\ promised' = [promised EXCEPT ![key] = value]
  /\ c_last' = Returned("set", key, Absent, FALSE)
  /\ UNCHANGED c_pc

\* FileCache.get(key): lines 45-67
cache_get(key) ==
  /\ c_pc = "ready"
  /\ \E io \in (IF has(cache_dir, key) THEN GetOutcomes ELSE {"ok"}) :
       /\ c_last' = Returned("get", key, get(cache_dir, key, io), FALSE)
       /\ io_failed' = (io_failed \/ io # "ok")
  /\ UNCHANGED <<c_pc, cache_dir, promised>>

\* FileCache.has(key): lines 92-103
cache_has(key) ==
  /\ c_pc = "ready"
  /\ c_last' = Returned("has", key, Absent, has(cache_dir, key))
  /\ UNCHANGED <<c_pc, cache_dir, promised, io_failed>>

\* FileCache.invalidate(key): lines 105-119
cache_invalidate(key) ==
  /\ c_pc = "ready"
  /\ \E io \in (IF has(cache_dir, key) THEN InvalidateOutcomes ELSE {"ok"}) :
       /\ cache_dir' = invalidate(cache_dir, key, io)
       /\ io_failed' = (io_failed \/ io # "ok")
  /\ promised' = [promised EXCEPT ![key] = Absent]
  /\ c_last' = Returned("invalidate", key, Absent, FALSE)
  /\ UNCHANGED c_pc

\* TranscriptionCacheService: lines 136-185, each method generates the key
\* and calls the method of the FileCache
cache_transcription ==
  \E options \in OptionSets, transcription \in Transcriptions :
    cache_set(generate_cache_key(AudioFile, options), transcription)
get_cached_transcription ==
  \E options \in OptionSets : cache_get(generate_cache_key(AudioFile, options))
has_cached_transcription ==
  \E options \in OptionSets : cache_has(generate_cache_key(AudioFile, options))
invalidate_transcription ==
  \E options \in OptionSets : cache_invalidate(generate_cache_key(AudioFile, options))

(***************************************************************************)
(* SystemAudioCapture (src/audio_capture/system_audio.py)                  *)
(* Four flows of control: the caller of start_recording and                *)
(* stop_recording, the recording thread (_record), the saving thread       *)
(* (_save_audio) and the audio callback, which the input stream invokes    *)
(* for as long as it is open.  Every step is one read or write of shared   *)
(* state.                                                                  *)
(***************************************************************************)
\* chunks the input stream delivers in one recording
MaxChunks == 2

VARIABLES
  a_pc,           \* where the caller of start_recording / stop_recording stands
  recording,      \* SystemAudioCapture.recording
  stop_event,     \* SystemAudioCapture.stop_event is set
  audio_queue,    \* SystemAudioCapture.audio_queue
  record_thread,  \* where _record stands
  save_thread,    \* where _save_audio stands
  delivered,      \* number of chunks the callback has enqueued
  frames          \* the chunks written to the recording file, in order

aVars == <<a_pc, recording, stop_event, audio_queue, record_thread, save_thread,
           delivered, frames>>

\* __init__: lines 13-19
AudioInit ==
  /\ a_pc = "start"
  /\ recording = FALSE
  /\ stop_event = FALSE
  /\ audio_queue = <<>>
  /\ record_thread = "none"
  /\ save_thread = "none"
  /\ delivered = 0
  /\ frames = <<>>

\* start_recording: lines 34-53
start_recording ==
  /\ a_pc = "start"
  /\ ~recording
  /\ recording' = TRUE
  /\ stop_event' = FALSE
  /\ record_thread' = "started"
  /\ save_thread' = "started"
  /\ a_pc' = "recording"
  /\ UNCHANGED <<audio_queue, delivered, frames>>

\* _record enters `with sd.InputStream(...)`: lines 57-59
record_open ==
  /\ record_thread = "started"
  /\ record_thread' = "streaming"
  /\ UNCHANGED <<a_pc, recording, stop_event, audio_queue, save_thread, delivered, frames>>

\* _audio_callback, invoked by the open stream: lines 62-66
audio_callback ==
  /\ record_thread = "streaming"
  /\ delivered < MaxChunks
  /\ audio_queue' = Append(audio_queue, delivered + 1)
  /\ delivered' = delivered + 1
  /\ UNCHANGED <<a_pc, recording, stop_event, record_thread, save_thread, frames>>

\* stop_event.wait() returns and the stream is closed: line 60
record_close ==
  /\ record_thread = "streaming"
  /\ stop_event
  /\ record_thread' = "finished"
  /\ UNCHANGED <<a_pc, recording, stop_event, audio_queue, save_thread, delivered, frames>>

\* _save_audio opens the file: lines 70-73
save_open ==
  /\ save_thread = "started"
  /\ save_thread' = "test_recording"
  /\ UNCHANGED <<a_pc, recording, stop_event, audio_queue, record_thread, delivered, frames>>

\* `while self.recording or ...`: line 75, left operand
save_test_recording ==
  /\ save_thread = "test_recording"
  /\ save_thread' = IF recording THEN "get" ELSE "test_empty"
  /\ UNCHANGED <<a_pc, recording, stop_event, audio_queue, record_thread, delivered, frames>>

\* `... or not self.audio_queue.empty()`: line 75, right operand; the file
\* is closed when the loop is left
save_test_empty ==
  /\ save_thread = "test_empty"
  /\ save_thread' = IF audio_queue # <<>> THEN "get" ELSE "finished"
  /\ UNCHANGED <<a_pc, recording, stop_event, audio_queue, record_thread, delivered, frames>>

\* audio_queue.get(timeout=1) and writeframes, or queue.Empty: lines 76-80
save_get ==
  /\ save_thread = "get"
  /\ IF audio_queue # <<>>
       THEN /\ frames' = Append(frames, Head(audio_queue))
            /\ audio_queue' = Tail(audio_queue)
       ELSE UNCHANGED <<frames, audio_queue>>
  /\ save_thread' = "test_recording"
  /\ UNCHANGED <<a_pc, recording, stop_event, record_thread, delivered>>

\* stop_recording: self.recording = False, line 92
stop_recording ==
  /\ a_pc = "recording"
  /\ recording
  /\ recording' = FALSE
  /\ a_pc' = "stopping"
  /\ UNCHANGED <<stop_event, audio_queue, record_thread, save_thread, delivered, frames>>

\* stop_recording: self.stop_event.set(), line 93
stop_recording_set ==
  /\ a_pc = "stopping"
  /\ stop_event' = TRUE
  /\ a_pc' = "join_record"
  /\ UNCHANGED <<recording, audio_queue, record_thread, save_thread, delivered, frames>>

\* stop_recording: self.record_thread.join(), line 96
stop_recording_join_record ==
  /\ a_pc = "join_record"
  /\ record_thread = "finished"
  /\ a_pc' = "join_save"
  /\ UNCHANGED <<recording, stop_event, audio_queue, record_thread, save_thread,
                 delivered, frames>>

\* stop_recording: self.save_thread.join() and return, lines 97-100
stop_recording_join_save ==
  /\ a_pc = "join_save"
  /\ save_thread = "finished"
  /\ a_pc' = "stopped"
  /\ UNCHANGED <<recording, stop_event, audio_queue, record_thread, save_thread,
                 delivered, frames>>

(***************************************************************************)
(* AudioTranscriptionService.transcribe                                    *)
(* (src/transcription/meeting_transcription.py)                            *)
(* The service owns a FileCache (line 82): transcribe reads and writes     *)
(* cache_dir.  A call is one step: what the client, the audio optimizer,   *)
(* the user at the prompt and the cache files do during it is chosen in    *)
(* the step.  Line 205 is a second `else` at the indentation of the `if`   *)
(* of line 161; it is read here as the else of `if split_file in [...]`    *)
(* (line 170), whose case its log message names.                           *)
(***************************************************************************)
VARIABLES
  s_pc,     \* whether an AudioTranscriptionService exists
  s_last,   \* the last transcribe call: arguments, outcome, client calls made
  s_calls   \* the transcribe calls made

sVars == <<s_pc, s_last, s_calls>>

\* the transcribe calls of a run
MaxTranscribes == 2

\* max_size_mb, line 137
max_size_mb == 25

\* a file above the limit, and what AudioOptimizer.optimize_audio makes of it:
\* a new file named after the original and the time of the call (line 147)
LargeAudioFile == [path |-> "/tmp/long.mp3", size |-> 30 * 1024 * 1024, mtime |-> 1]
CompressedFile(file) ==
  [path |-> "/tmp/long_compressed_1700000000.mp3", size |-> 20 * 1024 * 1024, mtime |-> 2]
AudioFiles == {AudioFile, LargeAudioFile}

\* os.path.getsize(audio_file_path) / (1024 * 1024) > max_size_mb: lines 136-139
too_large(file) == file.size > max_size_mb * 1024 * 1024

\* what transcription_client.transcribe returns for a file or a segment
ClientTexts == Transcriptions \cup {""}

\* full_transcript of the diarization branch: lines 212-215
Diarized(text) ==
  CASE text = "Transcription 1" -> "[Speaker 1]: Transcription 1"
    [] text = "Transcription 2" -> "[Speaker 1]: Transcription 2"
    [] OTHER -> "[Speaker 1]: "
\* SpeakerDiarization.detect_speakers returns three segments
DiarizationSegments == 3

\* full_transcript of the split branch: lines 175-184
Segmented(text) ==
  CASE text = "Transcription 1" -> "--- Segmento 1 --- Transcription 1"
    [] text = "Transcription 2" -> "--- Segmento 1 --- Transcription 2"
    [] OTHER -> "--- Segmento 1 --- "
\* the segments AudioOptimizer.split_large_audio cuts the file into
SplitSegments == 2

\* a transcribe call and how it ended
Transcribed(file, diarization, use_cache, ret, client_calls, raised) ==
  [path |-> file.path, size |-> file.size, mtime |-> file.mtime,
   diarization |-> diarization, use_cache |-> use_cache,
   ret |-> ret, client_calls |-> client_calls, raised |-> raised]

ServiceInit ==
  /\ s_pc = "start"
  /\ s_last = Transcribed(AudioFile, FALSE, FALSE, Absent, 0, TRUE)
  /\ s_calls = 0

\* AudioTranscriptionService(): lines 61-85
AudioTranscriptionService ==
  /\ s_pc = "start"
  /\ s_pc' = "ready"
  /\ UNCHANGED <<s_last, s_calls, cVars>>

\* the key transcribe caches the result under: lines 240-246 (220-226, 196-202)
cached_under(file, diarization) == generate_cache_key(file, Options(diarization))

\* lines 119-131: the cached transcription, or Absent when the call goes on
cache_lookup(fs, file, diarization, use_cache, io) ==
  LET key == generate_cache_key(file, Options(diarization))
  IN IF use_cache /\ has(fs, key) /\ get(fs, key, io) \notin {Absent, ""}
       THEN get(fs, key, io)
       ELSE Absent

\* the call returns `text` after `n` client calls; lines 236-248 (216-228,
\* 192-204): the result is cached under the file the path names by now.
\* `failed`: the lookup of lines 119-131 met a file it could not read
transcribe_returns(asked, named, diarization, use_cache, text, n, failed) ==
  /\ IF use_cache
       THEN \E io \in SetOutcomes :
              /\ cache_dir' = set(cache_dir, cached_under(named, diarization), text, io)
              /\ io_failed' = (io_failed \/ failed \/ io # "ok")
       ELSE /\ io_failed' = (io_failed \/ failed)
            /\ UNCHANGED cache_dir
  /\ s_last' = Transcribed(asked, diarization, use_cache, text, n, FALSE)

\* the call raises "Transcription failed": lines 249-251
transcribe_raises(asked, diarization, use_cache, n, failed) ==
  /\ s_last' = Transcribed(asked, diarization, use_cache, Absent, n, TRUE)
  /\ io_failed' = (io_failed \/ failed)
  /\ UNCHANGED cache_dir

\* lines 209-248: the transcription proper, of the file the path names by now
transcribe_file(asked, named, diarization, use_cache, failed) ==
  \/ \E text \in ClientTexts :
       IF diarization
         THEN transcribe_returns(asked, named, diarization, use_cache,
                                 Diarized(text), DiarizationSegments, failed)
         ELSE transcribe_returns(asked, named, diarization, use_cache, text, 1, failed)
  \/ transcribe_raises(asked, diarization, use_cache, 1, failed)

\* transcribe(audio_file_path, diarization, use_cache): lines 116-251
transcribe ==
  /\ s_pc = "ready"
  /\ s_calls < MaxTranscribes
  /\ s_calls' = s_calls + 1
  /\ \E file \in AudioFiles, diarization \in BOOLEAN, use_cache \in BOOLEAN :
       \E io \in GetOutcomes :
         LET cached == cache_lookup(cache_dir, file, diarization, use_cache, io)
             failed == use_cache /\ io # "ok"
                         /\ has(cache_dir, generate_cache_key(file, Options(diarization)))
         IN IF cached # Absent
              THEN /\ s_last' = Transcribed(file, diarization, use_cache, cached, 0, FALSE)
                   /\ UNCHANGED <<cache_dir, io_failed>>
              ELSE IF ~too_large(file)
                THEN transcribe_file(file, file, diarization, use_cache, failed)
                ELSE \* lines 139-206
                     \/ transcribe_file(file, CompressedFile(file), diarization,
                                        use_cache, failed)
                     \/ \E text \in ClientTexts :
                          transcribe_returns(file, file, diarization, use_cache,
                                             Segmented(text), SplitSegments, failed)
                     \/ transcribe_file(file, file, diarization, use_cache, failed)
                     \/ transcribe_raises(file, diarization, use_cache, 0, failed)
  /\ UNCHANGED <<s_pc, c_pc, promised, c_last>>

(***************************************************************************)
(* The specification.  A run constructs a SlackDownloader, a               *)
(* SlackChannelLister and a SlackPaginator and drives one of them, or      *)
(* filters a list of messages it holds, or exports lists of messages, or   *)
(* uses a transcription cache: a single sequential flow of blocking calls. *)
(* Or it records audio, with the threads SystemAudioCapture starts, or     *)
(* transcribes audio files with an AudioTranscriptionService.              *)
(***************************************************************************)
vars == <<dlVars, clVars, pgVars, fVars, exVars, cVars, aVars, sVars>>

\* what the steps of one component leave alone
notDownloader == <<clVars, pgVars, fVars, exVars, cVars, aVars, sVars>>
notLister == <<dlVars, pgVars, fVars, exVars, cVars, aVars, sVars>>
notPaginator == <<dlVars, clVars, fVars, exVars, cVars, aVars, sVars>>
notFilter == <<dlVars, clVars, pgVars, exVars, cVars, aVars, sVars>>
notExporter == <<dlVars, clVars, pgVars, fVars, cVars, aVars, sVars>>
notCache == <<dlVars, clVars, pgVars, fVars, exVars, aVars, sVars>>
notAudio == <<dlVars, clVars, pgVars, fVars, exVars, cVars, sVars>>
notService == <<dlVars, clVars, pgVars, fVars, exVars, aVars>>

\* no operation has been started yet
Idle ==
  /\ pc = "start"
  /\ cl_pc = "start"
  /\ pg_pc = "start"
  /\ f_pc = "start"
  /\ ex_pc = "start"
  /\ c_pc = "start"
  /\ a_pc = "start"
  /\ s_pc = "start"

Init ==
  /\ \E j \in BOOLEAN : DownloaderInit(j)
  /\ ListerInit
  /\ PaginatorInit
  /\ FilterInit
  /\ ExporterInit
  /\ CacheInit
  /\ AudioInit
  /\ ServiceInit

Next ==
  \/ Idle /\ fetch_messages /\ UNCHANGED notDownloader
  \/ fetch_messages_get /\ UNCHANGED notDownloader
  \/ fetch_messages_join /\ UNCHANGED notDownloader
  \/ fetch_messages_retry /\ UNCHANGED notDownloader
  \/ fetch_messages_expand /\ UNCHANGED notDownloader
  \/ fetch_messages_attach /\ UNCHANGED notDownloader
  \/ fetch_messages_page_done /\ UNCHANGED notDownloader
  \/ Idle /\ fetch_thread_messages /\ UNCHANGED notDownloader
  \/ fetch_thread_messages_get /\ UNCHANGED notDownloader
  \/ fetch_thread_messages_join /\ UNCHANGED notDownloader
  \/ fetch_thread_messages_retry /\ UNCHANGED notDownloader
  \/ Idle /\ list_channels /\ UNCHANGED notLister
  \/ get_channels /\ UNCHANGED notLister
  \/ Idle /\ fetch_all /\ UNCHANGED notPaginator
  \/ make_api_call /\ UNCHANGED notPaginator
  \/ Idle /\ filter_input /\ UNCHANGED notFilter
  \/ apply_filter /\ UNCHANGED notFilter
  \/ caller_appends /\ UNCHANGED notFilter
  \/ Idle /\ JSONExporter /\ UNCHANGED notExporter
  \/ clock_tick /\ UNCHANGED notExporter
  \/ export_messages /\ UNCHANGED notExporter
  \/ Idle /\ FileCache /\ UNCHANGED notCache
  \/ cache_transcription /\ UNCHANGED notCache
  \/ get_cached_transcription /\ UNCHANGED notCache
  \/ has_cached_transcription /\ UNCHANGED notCache
  \/ invalidate_transcription /\ UNCHANGED notCache
  \/ Idle /\ start_recording /\ UNCHANGED notAudio
  \/ record_open /\ UNCHANGED notAudio
  \/ audio_callback /\ UNCHANGED notAudio
  \/ record_close /\ UNCHANGED notAudio
  \/ save_open /\ UNCHANGED notAudio
  \/ save_test_recording /\ UNCHANGED notAudio
  \/ save_test_empty /\ UNCHANGED notAudio
  \/ save_get /\ UNCHANGED notAudio
  \/ stop_recording /\ UNCHANGED notAudio
  \/ stop_recording_set /\ UNCHANGED notAudio
  \/ stop_recording_join_record /\ UNCHANGED notAudio
  \/ stop_recording_join_save /\ UNCHANGED notAudio
  \/ Idle /\ AudioTranscriptionService /\ UNCHANGED notService
  \/ transcribe /\ UNCHANGED notService

Spec == Init /\ [][Next]_vars

(***************************************************************************)
(* Reading the traces.                                                     *)
(***************************************************************************)
HistoryRequests == SelectSeq(trace, LAMBDA e : IsRequestTo(e, history_url))
RepliesRequests == SelectSeq(trace, LAMBDA e : IsRequestTo(e, replies_url))
JoinRequests == SelectSeq(trace, LAMBDA e : IsRequestTo(e, join_url))
ListRequests == SelectSeq(cl_trace, IsRequest)
ClientCalls == SelectSeq(pg_trace, IsClientCall)

\* the timestamps of a message sequence
TsOf(msgs) == [i \in 1..Len(msgs) |-> msgs[i].ts]

\* the messages of the answers to `reqs`, page after page
RECURSIVE PagesOf(_)
PagesOf(reqs) ==
  IF reqs = <<>> THEN <<>> ELSE Head(reqs).resp.messages \o PagesOf(Tail(reqs))

\* every answer so far was a successful history page without thread-bearing messages
PlainHistory ==
  \A i \in 1..Len(trace) :
    IsRequest(trace[i]) /\ trace[i].url # users_info_url =>
      /\ trace[i].url = history_url
      /\ trace[i].resp.kind = "ok"
      /\ \A k \in 1..Len(trace[i].resp.messages) : ~has_thread(trace[i].resp.messages[k])

\* every client_method call so far returned a page
PlainPaging == \A i \in 1..Len(ClientCalls) : ClientCalls[i].resp.kind = "ok"

(***************************************************************************)
(* C1.  Over a history of N >= 1 successful pages without thread-bearing   *)
(* messages, where every page but the last carries a next_cursor and the   *)
(* last carries none, fetch_messages issues exactly N history requests     *)
(* (it goes on after every page that carries a cursor, stops at the first  *)
(* that carries none) and returns the pages' messages concatenated in      *)
(* request order; SlackPaginator.fetch_all does the same with its client   *)
(* method.                                                                 *)
(***************************************************************************)
C1_fetch_messages ==
  PlainHistory =>
    LET reqs == HistoryRequests
        n == Len(reqs)
    IN /\ \A i \in 1..(n - 1) : reqs[i].resp.cursor # Absent
       /\ pc = "done" =>
            /\ n >= 1
            /\ reqs[n].resp.cursor = Absent
            /\ TsOf(all_messages) = TsOf(PagesOf(reqs))

C1_fetch_all ==
  PlainPaging =>
    LET calls == ClientCalls
        n == Len(calls)
    IN /\ \A i \in 1..(n - 1) : truthy(calls[i].resp.cursor)
       /\ pg_pc = "done" =>
            /\ n >= 1
            /\ ~truthy(calls[n].resp.cursor)
            /\ all_results = PagesOf(calls)

C1_PagesConcatenated == C1_fetch_messages /\ C1_fetch_all

\* fetch_messages has returned three plain pages of two messages each
C1_Witness ==
  /\ pc = "done"
  /\ PlainHistory
  /\ Len(HistoryRequests) = 3
  /\ Len(all_messages) = 6

\* fetch_all has returned after three pages, two of them with items
C1_WitnessPaginator ==
  /\ pg_pc = "done"
  /\ PlainPaging
  /\ Len(ClientCalls) = 3
  /\ Len(all_results) >= 4

(***************************************************************************)
(* Reading the traces: auto-join and rate limiting.                        *)
(***************************************************************************)
IsPageRequest(e) == IsRequestTo(e, history_url) \/ IsRequestTo(e, replies_url)
IsJoin(e) == e.op = "POST" /\ e.url = join_url
SameRequest(e, f) == e.op = f.op /\ e.url = f.url /\ e.params = f.params

\* trace[i] is the GET that follows a successful join
IsRetry(i) == i > 1 /\ IsJoin(trace[i - 1]) /\ trace[i - 1].resp = "ok"

\* trace[i] is a page request answered not_in_channel, and not itself a retry
NotInChannelAt(i) ==
  /\ IsPageRequest(trace[i])
  /\ trace[i].resp.kind = "error"
  /\ trace[i].resp.error = "not_in_channel"
  /\ ~IsRetry(i)

\* the replies requests of the fetch_thread_messages call that is running or
\* has just ended: those after the last call event
LastCall ==
  LET calls == {i \in 1..Len(trace) : trace[i].op = "call"}
  IN IF calls = {} THEN 0 ELSE CHOOSE i \in calls : \A k \in calls : k <= i
OkPagesAfter(start, url) ==
  SelectSeq(SubSeq(trace, start + 1, Len(trace)),
            LAMBDA e : IsRequestTo(e, url) /\ e.resp.kind = "ok")

\* the first request to `url` after position i, or 0
NextRequestTo(url, i) ==
  LET later == {k \in (i + 1)..Len(trace) : IsRequestTo(trace[k], url)}
  IN IF later = {} THEN 0 ELSE CHOOSE k \in later : \A m \in later : k <= m

(***************************************************************************)
(* C2.  With auto_join enabled, a history or replies request answered      *)
(* not_in_channel is followed by exactly one conversations.join call, and  *)
(* when the join succeeds by exactly one retry of the same request, same   *)
(* URL and same parameters; neither a second join nor a second retry       *)
(* follows.  Pagination continues from the retried response: the next      *)
(* request of the loop carries its next_cursor and the result holds the    *)
(* messages of every accepted page, the retried one included.              *)
(***************************************************************************)
C2_JoinThenOneRetry ==
  auto_join =>
    /\ \A i \in 1..Len(trace) :
         NotInChannelAt(i) =>
           /\ i = Len(trace) =>
                \/ pc = "join" /\ trace[i].url = history_url
                \/ t_pc = "join" /\ trace[i].url = replies_url
           /\ i < Len(trace) =>
                /\ IsJoin(trace[i + 1])
                /\ trace[i + 1].params = [channel |-> channel_id]
           /\ i + 1 = Len(trace) /\ trace[i + 1].resp = "ok" =>
                \/ pc = "retry" /\ trace[i].url = history_url
                \/ t_pc = "retry" /\ trace[i].url = replies_url
           /\ i + 1 < Len(trace) /\ trace[i + 1].resp = "ok" =>
                SameRequest(trace[i + 2], trace[i])
           /\ i + 2 < Len(trace) /\ trace[i + 1].resp = "ok" =>
                /\ ~IsJoin(trace[i + 3])
                /\ ~SameRequest(trace[i + 3], trace[i])
    /\ \A i \in 1..Len(trace) :
         IsRetry(i) /\ trace[i].resp.kind = "ok" =>
           LET k == NextRequestTo(trace[i].url, i)
           IN k # 0 => trace[k].params.cursor = trace[i].resp.cursor
    /\ pc = "done" => TsOf(all_messages) = TsOf(PagesOf(OkPagesAfter(0, history_url)))
    /\ t_pc = "returned" => TsOf(t_all) = TsOf(PagesOf(OkPagesAfter(LastCall, replies_url)))

\* page 2 of the history was refused, the downloader joined, retried with the
\* cursor of page 1 and the fetch returned both pages
C2_Witness ==
  /\ auto_join
  /\ pc = "done"
  /\ Len(trace) >= 4
  /\ \E i \in 2..Len(trace) :
       /\ NotInChannelAt(i)
       /\ trace[i].url = history_url
       /\ trace[i].params.cursor = "c1"
       /\ trace[i + 1].resp = "ok"
       /\ trace[i + 2].resp.kind = "ok"
  /\ Len(all_messages) = 4

\* the same in fetch_thread_messages: replies refused, join, retry, next page
C2_WitnessThread ==
  /\ auto_join
  /\ t_pc = "returned"
  /\ \E i \in 1..Len(trace) :
       /\ NotInChannelAt(i)
       /\ trace[i].url = replies_url
       /\ i + 3 <= Len(trace)
       /\ trace[i + 2].resp.kind = "ok"
       /\ trace[i + 2].resp.cursor = "c1"
  /\ Len(t_all) >= 1

(***************************************************************************)
(* C3.  With auto_join disabled no conversations.join call is ever issued, *)
(* and a not_in_channel answer makes fetch_messages, and                   *)
(* fetch_thread_messages, raise SlackAPIError at once: the refused request *)
(* is the last one of the call.  (t_pc is "off" once fetch_messages has    *)
(* caught the error of the thread and moved on.)                           *)
(***************************************************************************)
C3_NoJoinWithoutAutoJoin ==
  ~auto_join =>
    /\ \A i \in 1..Len(trace) : ~IsJoin(trace[i])
    /\ \A i \in 1..Len(trace) :
         NotInChannelAt(i) /\ trace[i].url = history_url =>
           /\ i = Len(trace)
           /\ pc = "raised"
           /\ error = Raised("SlackAPIError", "not_in_channel")
    /\ \A i \in 1..Len(trace) :
         NotInChannelAt(i) /\ trace[i].url = replies_url =>
           /\ i = Len(trace) =>
                /\ t_pc \in {"raised", "off"}
                /\ t_error = Raised("SlackAPIError", "not_in_channel")
           /\ i < Len(trace) => ~IsRequestTo(trace[i + 1], replies_url)

\* auto_join is off and page 2 of the history was refused
C3_Witness ==
  /\ ~auto_join
  /\ pc = "raised"
  /\ error = Raised("SlackAPIError", "not_in_channel")
  /\ Len(HistoryRequests) = 2
  /\ JoinRequests = <<>>

\* auto_join is off and a replies request was refused
C3_WitnessThread ==
  /\ ~auto_join
  /\ t_pc = "raised"
  /\ t_error = Raised("SlackAPIError", "not_in_channel")

(***************************************************************************)
(* Rate limiting.  A page request is rate limited when Slack answers       *)
(* "ratelimited", in the body or with HTTP status 429.                     *)
(***************************************************************************)
RateLimited(e) ==
  /\ IsPageRequest(e) \/ IsRequestTo(e, list_url)
  /\ e.resp.kind \in {"error", "status_429"}
  /\ e.resp.error = "ratelimited"

\* in `seq`, every rate-limited request is followed by a wait of at least
\* advised(e) milliseconds and then by the identical request
WaitsThenReissues(seq, advised(_)) ==
  \A i \in 1..Len(seq) :
    RateLimited(seq[i]) =>
      /\ i < Len(seq) =>
           /\ seq[i + 1].op = "sleep"
           /\ seq[i + 1].ms >= advised(seq[i])
      /\ i + 1 < Len(seq) => SameRequest(seq[i + 2], seq[i])

\* the operation that owns `seq` has not stopped on a rate-limited request
StillFetching(seq, stopped) ==
  seq # <<>> /\ RateLimited(seq[Len(seq)]) => ~stopped

(***************************************************************************)
(* C4.  A history, replies or channel-list request that is rate limited    *)
(* with an advised wait of W seconds is followed by a wait of at least W   *)
(* seconds and then by the identical request (same URL, same parameters,   *)
(* same cursor), nothing in between, and the fetch goes on.                *)
(***************************************************************************)
C4_RateLimitWaitsAndReissues ==
  /\ WaitsThenReissues(trace, LAMBDA e : rate_limit_delay)
  /\ WaitsThenReissues(cl_trace, LAMBDA e : retry_after(e.resp.header) * 1000)
  /\ StillFetching(trace, pc = "raised" \/ t_pc = "raised")
  /\ StillFetching(cl_trace, cl_pc = "raised")

(***************************************************************************)
(* C5.  A rate-limited response never turns into a failure of the fetch:   *)
(* no history, replies or channel-list fetch ends with an exception whose  *)
(* cause is a rate-limited answer to its last request.                     *)
(***************************************************************************)
C5_RateLimitNeverRaises ==
  /\ pc = "raised" /\ HistoryRequests # <<>> =>
       ~RateLimited(HistoryRequests[Len(HistoryRequests)])
  /\ t_pc = "raised" /\ RepliesRequests # <<>> =>
       ~RateLimited(RepliesRequests[Len(RepliesRequests)])
  /\ cl_pc = "raised" /\ ListRequests # <<>> =>
       ~RateLimited(ListRequests[Len(ListRequests)])

(***************************************************************************)
(* Failures other than rate limiting and not_in_channel.                   *)
(***************************************************************************)
\* a history, replies or list request that failed for another reason
Failed(e) ==
  /\ IsPageRequest(e) \/ IsRequestTo(e, list_url)
  /\ ~RateLimited(e)
  /\ \/ e.resp.kind \in {"transport", "malformed"}
     \/ e.resp.kind = "error" /\ e.resp.error # "not_in_channel"

Raises(e) == IsClientCall(e) /\ e.resp.kind = "raises"

\* the number of consecutive client_method calls up to call i that raised
RECURSIVE Streak(_, _)
Streak(calls, i) ==
  IF i = 0 \/ ~Raises(calls[i]) THEN 0 ELSE 1 + Streak(calls, i - 1)

\* in the downloader and in the channel lister the failed request is the last
\* request of the operation: nothing follows it in fetch_messages and in
\* _get_channels, and after a failed replies request fetch_messages goes on
\* with the next thread or the next page
FailedRequestIsLast ==
  /\ \A i \in 1..Len(trace) :
       Failed(trace[i]) =>
         /\ trace[i].url = history_url =>
              i = Len(trace) /\ pc = "raised"
         /\ trace[i].url = replies_url =>
              /\ i = Len(trace) => t_pc \in {"raised", "off"}
              /\ i < Len(trace) => trace[i + 1].op \in {"call", "sleep"}
  /\ \A i \in 1..Len(cl_trace) :
       Failed(cl_trace[i]) => i = Len(cl_trace) /\ cl_pc = "raised"

C6_WitnessDownloader ==
  /\ pc = "raised"
  /\ Len(HistoryRequests) = 2
  /\ Failed(HistoryRequests[2])
  /\ error = Raised("SlackAPIError", "channel_not_found")

(***************************************************************************)
(* C7.  fetch_all raises to its caller when client_method fails: it never  *)
(* returns a result list after a call that raised and was not made good by *)
(* a later attempt.                                                        *)
(***************************************************************************)
C7_FetchAllNeverReturnsAfterFailure ==
  pg_pc = "done" => ~Raises(ClientCalls[Len(ClientCalls)])

(***************************************************************************)
(* Reading the trace: user lookups and mentions.                           *)
(***************************************************************************)
\* positions of the users.info requests for u
Lookups(u) ==
  {i \in 1..Len(trace) :
     IsRequestTo(trace[i], users_info_url) /\ trace[i].params.user = u}

\* the places where u is mentioned in the texts of the pages processed so
\* far, history and replies: <<request, message, token>>
MentionSites(u) ==
  UNION { UNION { {<<i, k, j>> :
                     j \in {n \in DOMAIN trace[i].resp.messages[k].text :
                              trace[i].resp.messages[k].text[n] = Mention(u)}} :
                  k \in DOMAIN trace[i].resp.messages } :
          i \in {n \in 1..Len(trace) :
                   IsPageRequest(trace[n]) /\ trace[n].resp.kind = "ok"} }

\* the number of times u is mentioned in the texts received so far
Mentions(u) == Cardinality(MentionSites(u))

(***************************************************************************)
(* C8, as stated.  In a whole session the users.info lookup is issued at   *)
(* most once for every user id, however often the id is mentioned.         *)
(***************************************************************************)
C8_AtMostOneLookup ==
  \A u \in Users : Cardinality(Lookups(u)) <= 1

(***************************************************************************)
(* C8, amended.  For every user id at most one users.info lookup succeeds  *)
(* and none is issued after it: every later mention is a cache hit.  A     *)
(* lookup that failed is issued again at the next mention.                 *)
(***************************************************************************)
C8_NoLookupAfterSuccess ==
  \A u \in Users :
    \A i, k \in Lookups(u) : i < k => trace[i].resp = "failed"

\* U1 was mentioned four times or more and looked up once, at the first mention
C8_Witness ==
  /\ Mentions("U1") >= 4
  /\ Cardinality(Lookups("U1")) = 1
  /\ "U1" \in DOMAIN users_cache
  /\ pc = "done"
  /\ all_messages[1].text = <<At("alice"), At("alice")>>

(***************************************************************************)
(* C9.  When the users.info lookup fails (transport exception, non-ok      *)
(* answer, malformed body) get_user_info returns the raw user id and       *)
(* leaves users_cache as it was: the cache holds exactly the ids whose     *)
(* lookup succeeded, and an id that is not cached has been looked up once  *)
(* for each of its mentions, so a later lookup of it can succeed.          *)
(***************************************************************************)
C9_FailedLookupNotCached ==
  /\ \A u \in Users : \A a \in LookupAnswers(u) :
       a.kind # "ok" =>
         /\ get_user_info_miss(u, users_cache, a).ret = u
         /\ get_user_info_miss(u, users_cache, a).cache = users_cache
  /\ DOMAIN users_cache = {u \in Users : \E i \in Lookups(u) : trace[i].resp = "ok"}
  /\ \A u \in Users :
       u \notin DOMAIN users_cache => Cardinality(Lookups(u)) = Mentions(u)

\* a lookup of U1 failed, the raw id went into the text, and the lookup at
\* the next mention succeeded
C9_Witness ==
  /\ \E i, k \in Lookups("U1") :
       i < k /\ trace[i].resp = "failed" /\ trace[k].resp = "ok"
  /\ "U1" \in DOMAIN users_cache
  /\ users_cache["U1"] = "alice"
  /\ pc = "done"
  /\ all_messages[1].text = <<At("U1"), At("alice")>>

(***************************************************************************)
(* Reading the trace: thread expansion.                                    *)
(***************************************************************************)
\* the raw messages of the history pages whose thread loop is over
Expanded ==
  LET raw == PagesOf(OkPagesAfter(0, history_url))
      done == {m.ts : m \in {all_messages[k] : k \in 1..Len(all_messages)}}
  IN SelectSeq(raw, LAMBDA m : m.ts \in done)

\* positions of the fetch_thread_messages calls made for message m
ThreadCalls(m) ==
  {i \in 1..Len(trace) : trace[i].op = "call" /\ trace[i].of = m.ts}

ExactlyOneThreadCall(m) ==
  /\ Cardinality(ThreadCalls(m)) = 1
  /\ \A i \in ThreadCalls(m) : trace[i].thread_ts = thread_ts_of(m)

(***************************************************************************)
(* C10, as stated.  Of the messages of every fetched history page, one     *)
(* with reply_count 0 and no thread_ts never triggers a                    *)
(* fetch_thread_messages call, and one with reply_count > 0 triggers       *)
(* exactly one, made with its thread_ts or, when it has none, its ts.      *)
(***************************************************************************)
C10_ThreadCallPerReplyCount ==
  \A k \in 1..Len(Expanded) :
    LET m == Expanded[k]
    IN /\ m.reply_count = 0 /\ m.thread_ts = NoTs => ThreadCalls(m) = {}
       /\ m.reply_count > 0 => ExactlyOneThreadCall(m)

(***************************************************************************)
(* C10, amended.  A message with reply_count 0 and no thread_ts, and a     *)
(* message that already carries a non-empty thread_replies, never triggers *)
(* a fetch_thread_messages call; a message with reply_count > 0 (or a      *)
(* thread_ts) and no thread_replies of its own triggers exactly one, made  *)
(* with its thread_ts or, when it has none, its ts.                        *)
(***************************************************************************)
C10_ThreadCallUnlessAttached ==
  \A k \in 1..Len(Expanded) :
    LET m == Expanded[k]
    IN /\ m.reply_count = 0 /\ m.thread_ts = NoTs => ThreadCalls(m) = {}
       /\ replies_attached(m) => ThreadCalls(m) = {}
       /\ (m.reply_count > 0 \/ m.thread_ts # NoTs) /\ ~replies_attached(m) =>
            ExactlyOneThreadCall(m)

\* a page with two messages of reply_count 1, the second with its replies
\* attached: one call, with the first message's own ts
C10_Witness ==
  /\ pc = "done"
  /\ Len(Expanded) = 2
  /\ Expanded[1].reply_count > 0 /\ Expanded[1].thread_ts = NoTs
  /\ ExactlyOneThreadCall(Expanded[1])
  /\ replies_attached(Expanded[2]) /\ ThreadCalls(Expanded[2]) = {}
  /\ all_messages[1].thread_replies # <<>>

(***************************************************************************)
(* Reading the trace: the requests of one fetch_thread_messages call.      *)
(***************************************************************************)
\* the first position after c that no longer belongs to the call made at c
CallEnd(c) ==
  LET later == {k \in (c + 1)..Len(trace) :
                  trace[k].op = "call" \/ IsRequestTo(trace[k], history_url)}
  IN IF later = {} THEN Len(trace) + 1 ELSE CHOOSE k \in later : \A n \in later : k <= n

\* positions of the replies and join requests of the call made at c
CallRequests(c) ==
  {k \in (c + 1)..(CallEnd(c) - 1) :
     IsRequestTo(trace[k], replies_url) \/ IsJoin(trace[k])}

\* the call made at c returned: its last request is a replies page without cursor
CallReturned(c) ==
  /\ CallRequests(c) # {}
  /\ LET last == CHOOSE k \in CallRequests(c) : \A n \in CallRequests(c) : n <= k
     IN /\ IsRequestTo(trace[last], replies_url)
        /\ trace[last].resp.kind = "ok"
        /\ ~has_next_cursor(trace[last].resp)

\* the replies the service handed out during the call made at c
CallReplies(c) ==
  PagesOf(SelectSeq(SubSeq(trace, c + 1, CallEnd(c) - 1),
                    LAMBDA e : IsRequestTo(e, replies_url) /\ e.resp.kind = "ok"))

\* message k of the result, as the service sent it
AsReceived(k) ==
  LET raw == PagesOf(OkPagesAfter(0, history_url)) IN raw[k]

(***************************************************************************)
(* C11.  When fetch_thread_messages fails while a message's thread is      *)
(* expanded, fetch_messages records an empty thread_replies on that        *)
(* message and goes on: fetch_messages itself raises only on a failure of  *)
(* its own history or join request, and in the result every other message  *)
(* holds the replies of its own call, or what it was received with.        *)
(***************************************************************************)
C11_ThreadFailureIsLocal ==
  /\ pc = "raised" =>
       /\ t_pc = "off"
       /\ LET last == trace[Len(trace)]
          IN IsRequestTo(last, history_url) \/ IsJoin(last)
  /\ t_pc = "raised" /\ t_caller = "fetch_messages" => pc = "threads"
  /\ \A k \in 1..Len(all_messages) :
       LET m == all_messages[k]
       IN IF ThreadCalls(m) = {}
            THEN m.thread_replies = AsReceived(k).thread_replies
            ELSE \A c \in ThreadCalls(m) :
                   IF CallReturned(c)
                     THEN TsOf(m.thread_replies) = TsOf(CallReplies(c))
                     ELSE m.thread_replies = <<>>

\* the thread of the first message failed after a page of replies, the thread
\* of the second one was fetched, and fetch_messages returned both messages
C11_Witness ==
  /\ pc = "done"
  /\ Len(all_messages) = 2
  /\ \E c \in ThreadCalls(all_messages[1]) :
       ~CallReturned(c) /\ CallReplies(c) # <<>>
  /\ all_messages[1].thread_replies = <<>>
  /\ \E c \in ThreadCalls(all_messages[2]) : CallReturned(c)
  /\ all_messages[2].thread_replies # <<>>

(***************************************************************************)
(* What the caller of fetch_messages holds after the call.                 *)
(***************************************************************************)
\* `return all_messages` (line 346) is the only way all_messages leaves
\* fetch_messages: it is a local, and the exceptions raised at lines 292-308
\* and 344 carry a message string only
fetch_messages_result ==
  [returned |-> pc = "done",
   messages |-> IF pc = "done" THEN all_messages ELSE <<>>]

\* the history pages fetch_messages has accepted so far
AcceptedPages == PagesOf(OkPagesAfter(0, history_url))

(***************************************************************************)
(* C12.  When fetch_messages aborts with an error on page k > 1, the       *)
(* messages accumulated from pages 1..k-1 are intact and available to the  *)
(* caller that catches the error.                                          *)
(***************************************************************************)
C12_PriorPagesAvailableAfterAbort ==
  pc = "raised" /\ Len(HistoryRequests) > 1 =>
    TsOf(fetch_messages_result.messages) = TsOf(AcceptedPages)

(***************************************************************************)
(* C13.  Join is attempted at most once per page request.  When the retry  *)
(* that follows a successful join fails again, with not_in_channel, with   *)
(* another API error or with a transport error, the fetch raises           *)
(* SlackAPIError: the retry is the last request of the call, no second     *)
(* conversations.join and no second retry follow it.                       *)
(***************************************************************************)
RetryFailedAt(i) ==
  /\ IsRetry(i)
  /\ IsPageRequest(trace[i])
  /\ trace[i].resp.kind \in {"error", "transport", "status_429"}

C13_WitnessTransport ==
  /\ t_pc = "raised"
  /\ t_error = Raised("SlackAPIError", "not_in_channel")
  /\ RetryFailedAt(Len(trace))
  /\ trace[Len(trace)].resp.kind = "transport"

(***************************************************************************)
(* C14.  In list_channels a failure while listing one visibility partition *)
(* (public, private, im, mpim) does not abort the others: list_channels    *)
(* does not end with an exception while partitions remain to be requested. *)
(***************************************************************************)
C14_PartitionFailureDoesNotAbort ==
  cl_pc = "raised" => cl_part = partition_count(include_private)

(***************************************************************************)
(* Termination.  The program is one sequential flow of blocking calls: a   *)
(* step that can be taken is taken, which is weak fairness of Next.        *)
(***************************************************************************)
LiveSpec == Spec /\ WF_vars(Next)

\* a successful page that signals the end of the stream to the loop reading it
EndsStream(e) ==
  /\ e.resp.kind = "ok"
  /\ \/ IsPageRequest(e) /\ e.resp.cursor = Absent
     \/ IsRequestTo(e, list_url) /\ e.resp.cursor \in {Absent, ""}

\* fetch_messages has received the last history page and is expanding its threads
LastPageReceived ==
  /\ pc = "threads"
  /\ HistoryRequests # <<>>
  /\ EndsStream(HistoryRequests[Len(HistoryRequests)])

\* the bound on requests has cut a thread fetch short: within the bound the
\* service has not sent the page that ends the thread
ThreadCutShort == ~CallsLeft /\ t_pc \in {"get", "join", "retry"}

\* a loop stops at the page that ends the stream and at no successful page
\* before it
StopsAtEndOfStream ==
  /\ \A i \in 1..Len(trace) :
       IsPageRequest(trace[i]) /\ EndsStream(trace[i]) =>
         /\ trace[i].url = history_url =>
              /\ pc \in {"threads", "done"}
              /\ \A k \in (i + 1)..Len(trace) : ~IsRequestTo(trace[k], history_url)
         /\ trace[i].url = replies_url =>
              \A k \in (i + 1)..(CallEnd(i) - 1) : ~IsRequestTo(trace[k], replies_url)
  /\ pc = "done" => EndsStream(HistoryRequests[Len(HistoryRequests)])
  /\ t_pc = "returned" => EndsStream(RepliesRequests[Len(RepliesRequests)])
  /\ \A i \in 1..Len(cl_trace) :
       IsRequest(cl_trace[i]) /\ EndsStream(cl_trace[i]) /\ i < Len(cl_trace) =>
         /\ cl_trace[i + 1].params.types # cl_trace[i].params.types
         /\ cl_trace[i + 1].params.cursor = Absent
  /\ cl_pc = "done" => EndsStream(cl_trace[Len(cl_trace)])
  /\ \A i \in 1..Len(ClientCalls) :
       ClientCalls[i].resp.kind = "ok" /\ ClientCalls[i].resp.cursor \in {Absent, ""} =>
         i = Len(ClientCalls) /\ pg_pc = "done"
  /\ pg_pc = "done" => ClientCalls[Len(ClientCalls)].resp.cursor \in {Absent, ""}

(***************************************************************************)
(* C15.  With successful responses and a service that eventually sends a   *)
(* page signalling the end of the stream, every pagination loop            *)
(* terminates, with as many page requests as pages were sent: the page     *)
(* that ends the stream is the last one requested, no loop stops at a      *)
(* successful page before it, and fetch_messages returns once the threads  *)
(* of its last page have been fetched.                                     *)
(***************************************************************************)
C15_PaginationTerminates ==
  /\ []StopsAtEndOfStream
  /\ LastPageReceived ~> (pc = "done" \/ ThreadCutShort)

\* two history pages, the last one with two threads of one page each, and
\* fetch_messages returned
C15_Witness ==
  /\ pc = "done"
  /\ Len(HistoryRequests) = 2
  /\ \A i \in 1..Len(trace) : IsPageRequest(trace[i]) => trace[i].resp.kind = "ok"
  /\ Len(RepliesRequests) = 2
  /\ Len(all_messages) = 4

(***************************************************************************)
(* Reading the traces: delays.                                             *)
(***************************************************************************)
IsSleep(e) == e.op = "sleep"

\* the configured delay of the session, in milliseconds
ConfiguredDelay == SLACK_RATE_LIMIT_DELAY * 1000

\* in fetch_messages over plain pages: exactly one delay of the configured
\* duration between two consecutive history requests, none after the last
DelaysBetweenHistoryPages ==
  PlainHistory =>
    /\ \A i \in 1..Len(trace) : IsSleep(trace[i]) => trace[i].ms = ConfiguredDelay
    /\ \A i, k \in 1..Len(trace) :
         /\ i < k
         /\ IsRequestTo(trace[i], history_url)
         /\ IsRequestTo(trace[k], history_url)
         /\ \A n \in (i + 1)..(k - 1) : ~IsRequestTo(trace[n], history_url)
         => Cardinality({n \in (i + 1)..(k - 1) : IsSleep(trace[n])}) = 1
    /\ pc = "done" =>
         /\ Count(trace, IsSleep) = Len(HistoryRequests) - 1
         /\ ~IsSleep(trace[Len(trace)])

(***************************************************************************)
(* C16, as stated.  A paginated fetch over N pages without thread-bearing  *)
(* messages performs exactly N-1 inter-page delays of the configured       *)
(* duration, one between two consecutive page requests and none after the  *)
(* last page, in fetch_messages and in SlackPaginator alike.               *)
(***************************************************************************)
C16_OneDelayBetweenPages ==
  /\ DelaysBetweenHistoryPages
  /\ PlainPaging /\ pg_pc = "done" =>
       Count(pg_trace, IsSleep) = Len(ClientCalls) - 1

(***************************************************************************)
(* C16, amended.  fetch_messages over N plain pages performs exactly N-1   *)
(* delays of the configured duration, one between two consecutive page     *)
(* requests and none after the last page.  SlackPaginator sleeps           *)
(* rate_limit_delay after every successful call, the last one included: N  *)
(* delays over N pages.                                                    *)
(***************************************************************************)
C16_DelayAfterEveryPaginatorCall ==
  /\ DelaysBetweenHistoryPages
  /\ PlainPaging =>
       /\ \A i \in 1..Len(pg_trace) :
            IsClientCall(pg_trace[i]) =>
              i < Len(pg_trace) /\ pg_trace[i + 1] = Sleep(pg_rate_limit_delay)
       /\ Count(pg_trace, IsSleep) = Len(ClientCalls)

\* two history pages of two and no messages: two messages, one delay
C16_Witness ==
  /\ pc = "done"
  /\ PlainHistory
  /\ Len(HistoryRequests) = 2
  /\ Len(HistoryRequests[1].resp.messages) = 2
  /\ Len(HistoryRequests[2].resp.messages) = 0
  /\ Len(all_messages) = 2
  /\ Count(trace, IsSleep) = 1

\* fetch_all over two pages: two delays, the second after the last page
C16_WitnessPaginator ==
  /\ pg_pc = "done"
  /\ PlainPaging
  /\ Len(ClientCalls) = 2
  /\ Count(pg_trace, IsSleep) = 2
  /\ IsSleep(pg_trace[Len(pg_trace)])

(***************************************************************************)
(* C17.  Filtering is idempotent and order-independent: on every list,     *)
(* applying by_user, by_date_range, by_has_replies or by_has_reactions     *)
(* twice gives what applying it once gives, and applying two of them in    *)
(* either order gives the same messages.  Stated of the calls the run has  *)
(* made: of each call and its argument, and of each two calls made one on  *)
(* the result of the other.                                                *)
(***************************************************************************)
C17_FiltersIdempotentAndCommute ==
  \A k \in 1..Len(f_calls) :
    LET g == f_calls[k].op
        x == f_calls[k].before
    IN /\ filtered(g, filtered(g, x)) = filtered(g, x)
       /\ k > 1 /\ f_calls[k].arg = f_calls[k - 1].result =>
            LET f == f_calls[k - 1].op
                y == f_calls[k - 1].before
            IN /\ x = filtered(f, y)
               /\ filtered(g, filtered(f, y)) = filtered(f, filtered(g, y))

\* by_user and then by_date_range with both bounds were applied to a list of
\* three messages, and each dropped a message
C17_Witness ==
  /\ Len(f_calls) = 2
  /\ f_calls[1].op.name = "by_user"
  /\ f_calls[2].op = FilterOp("by_date_range", "", Date(2), Date(2))
  /\ f_calls[2].arg = f_calls[1].result
  /\ Len(lists[1]) = 3
  /\ Len(lists[2]) = 2
  /\ Len(lists[3]) = 1

(***************************************************************************)
(* C18.  Every filter call leaves the list it was given unchanged and      *)
(* returns a new list, distinct from the one it was given: a later change  *)
(* to the returned list never changes the argument.  After the caller has  *)
(* appended to the last result, every list a call was given is the list    *)
(* it was when the call was made.                                          *)
(***************************************************************************)
C18_FiltersReturnNewLists ==
  \A k \in 1..Len(f_calls) :
    /\ f_calls[k].result # f_calls[k].arg
    /\ lists[f_calls[k].arg] = f_calls[k].before

(***************************************************************************)
(* C19.  export_messages writes an artifact whose message_count is the     *)
(* length of the exported list, whose messages field is that list in       *)
(* order, and whose start_date (end_date) is null exactly when that bound  *)
(* was not supplied.                                                       *)
(***************************************************************************)
C19_ArtifactMatchesExport ==
  /\ \A k \in 1..Len(exports) :
       LET c == exports[k]
       IN /\ c.data.message_count = Len(c.messages)
          /\ c.data.messages = c.messages
          /\ c.data.channel_id = c.channel
          /\ c.data.start_date = Null <=> ~c.start_date.given
          /\ c.data.end_date = Null <=> ~c.end_date.given
  /\ exports # <<>> =>
       LET last == exports[Len(exports)]
       IN last.path \in DOMAIN files /\ files[last.path] = last.data

\* three messages of channel C1 were exported without bounds
C19_Witness ==
  /\ Len(exports) = 1
  /\ exports[1].channel = "C1"
  /\ ~exports[1].start_date.given /\ ~exports[1].end_date.given
  /\ files[exports[1].path].message_count = 3
  /\ files[exports[1].path].start_date = Null
  /\ files[exports[1].path].end_date = Null
  /\ Len(files[exports[1].path].messages) = 3

(***************************************************************************)
(* C20.  No export overwrites a prior export of the same run: any two      *)
(* export_messages calls of a run, two calls with the same channel id and  *)
(* the same bounds included, write to different paths.                     *)
(***************************************************************************)
C20_ExportsNeverOverwrite ==
  \A i, k \in 1..Len(exports) : i # k => exports[i].path # exports[k].path

(***************************************************************************)
(* The pagination and recovery machine both loops are compared with.  Its  *)
(* state is [st, cursor, saved, err, got]: the decision taken last, the    *)
(* cursor the next request carries, the error kept for a failed join, the  *)
(* exception raised and the timestamps returned so far.  It reads the      *)
(* requests and delays of one fetch in order; a request the machine would  *)
(* not have issued takes it to "diverged".                                 *)
(***************************************************************************)
MachineStart ==
  [st |-> "get", cursor |-> Absent, saved |-> "", err |-> NoError, got |-> <<>>]

MachineRaise(s, type, msg) == [s EXCEPT !.st = "raised", !.err = Raised(type, msg)]

\* the decision after a page request answered `resp`
MachinePage(s, resp, retried, join_enabled) ==
  CASE resp.kind \in {"transport", "status_429"} ->
         IF retried THEN MachineRaise(s, "SlackAPIError", s.saved)
         ELSE MachineRaise(s, "RequestError", "Failed to connect to Slack API")
    [] resp.kind = "malformed" -> MachineRaise(s, "KeyError", "messages")
    [] resp.kind = "error" ->
         IF ~retried /\ resp.error = "not_in_channel" /\ join_enabled
           THEN [s EXCEPT !.st = "join", !.saved = resp.error]
           ELSE MachineRaise(s, "SlackAPIError", resp.error)
    [] OTHER ->
         LET got == s.got \o TsOf(resp.messages)
         IN IF resp.cursor # Absent
              THEN [s EXCEPT !.st = "wait", !.cursor = resp.cursor, !.got = got]
              ELSE [s EXCEPT !.st = "stop", !.got = got]

MachineStep(s, e, url, join_enabled) ==
  CASE s.st \in {"get", "retry"} /\ e.op = "GET" /\ e.url = url
         /\ e.params.cursor = s.cursor ->
         MachinePage(s, e.resp, s.st = "retry", join_enabled)
    [] s.st = "join" /\ e.op = "POST" /\ e.url = join_url ->
         IF e.resp = "ok" THEN [s EXCEPT !.st = "retry"]
         ELSE MachineRaise(s, "SlackAPIError", s.saved)
    [] s.st = "wait" /\ e.op = "sleep" /\ e.ms = SLACK_RATE_LIMIT_DELAY * 1000 ->
         [s EXCEPT !.st = "get"]
    [] OTHER -> [s EXCEPT !.st = "diverged"]

RECURSIVE MachineRun(_, _, _, _)
MachineRun(s, events, url, join_enabled) ==
  IF events = <<>> THEN s
  ELSE MachineRun(MachineStep(s, Head(events), url, join_enabled), Tail(events),
                  url, join_enabled)

\* the requests and delays of the fetch, lookups of user names left out
FetchEvents ==
  SelectSeq(trace, LAMBDA e : e.op = "sleep" \/ (IsRequest(e) /\ e.url # users_info_url))

\* no history page received so far holds a thread-bearing message
HistoryWithoutThreads ==
  \A i \in 1..Len(trace) :
    IsRequestTo(trace[i], history_url) =>
      \A k \in 1..Len(trace[i].resp.messages) :
        /\ trace[i].resp.messages[k].thread_ts = NoTs
        /\ trace[i].resp.messages[k].reply_count = 0

\* where a loop stands, in the machine's words
MachineState(where) ==
  CASE where \in {"done", "returned"} -> "stop"
    [] OTHER -> where

(***************************************************************************)
(* C21.  fetch_thread_messages is the same pagination and recovery machine *)
(* as fetch_messages against another endpoint: called on its own, and      *)
(* fetch_messages on a history without thread-bearing messages, each is    *)
(* at every point where the one machine is after the same requests,        *)
(* answers and delays (follow the cursor, wait, join then retry once,      *)
(* raise, stop), with the same exception when it has raised and with the   *)
(* timestamps of the pages received, in page order, as its result.         *)
(***************************************************************************)
C21_ThreadFetch ==
  pc = "thread_only" =>
    LET m == MachineRun(MachineStart, FetchEvents, replies_url, auto_join)
    IN /\ m.st = MachineState(t_pc)
       /\ m.err = t_error
       /\ m.cursor = t_params.cursor
       /\ m.got = TsOf(t_all)
       /\ m.st = "join" => m.saved = t_error_msg

C21_HistoryFetch ==
  HistoryWithoutThreads /\ pc \in {"get", "join", "retry", "raised", "done"} =>
    LET m == MachineRun(MachineStart, FetchEvents, history_url, auto_join)
    IN /\ m.st = MachineState(pc)
       /\ m.err = error
       /\ m.cursor = params.cursor
       /\ m.got = TsOf(all_messages)
       /\ m.st = "join" => m.saved = error_msg

C21_SameMachine == C21_ThreadFetch /\ C21_HistoryFetch

\* fetch_thread_messages, called on its own, was refused, joined, retried,
\* followed a cursor and returned the replies of two pages
C21_Witness ==
  /\ pc = "thread_only"
  /\ t_pc = "returned"
  /\ Len(JoinRequests) = 1
  /\ Len(RepliesRequests) = 3
  /\ Len(t_all) = 2

\* fetch_messages did the same over a history without threads
C21_WitnessHistory ==
  /\ pc = "done"
  /\ HistoryWithoutThreads
  /\ Len(JoinRequests) = 1
  /\ Len(HistoryRequests) = 3
  /\ Len(all_messages) = 4

(***************************************************************************)
(* Reading the cache.                                                      *)
(***************************************************************************)
KeyOf(options) == generate_cache_key(AudioFile, options)

\* the last call was get(k) after a set(k, v) with no set or invalidate of k
\* since, and it did not return v
StaleGet ==
  /\ c_last.op = "get"
  /\ promised[c_last.key] # Absent
  /\ c_last.text # promised[c_last.key]

\* the last call was has(k) and its answer is not whether a set(k, .) has
\* been called with no invalidate(k) since
WrongHas ==
  /\ c_last.op = "has"
  /\ c_last.found # (promised[c_last.key] # Absent)

\* what has and get return for `key` is the same before and after the step
SameEntry(key) ==
  /\ has(cache_dir', key) = has(cache_dir, key)
  /\ \A io \in GetOutcomes : get(cache_dir', key, io) = get(cache_dir, key, io)

\* a step that calls set or invalidate on one key leaves every other key alone
OtherKeysUntouched(ops) ==
  c_last' # c_last /\ c_last'.op \in ops =>
    \A key \in CacheKeys \ {c_last'.key} : SameEntry(key)

C24_OptionSetsIndependent ==
  [][ /\ \A a, b \in OptionSets : a # b => KeyOf(a) # KeyOf(b)
      /\ \A a, b \in OptionSets :
           /\ a # b
           /\ c_last' # c_last
           /\ c_last'.op \in {"set", "invalidate"}
           /\ c_last'.key = KeyOf(a)
           => SameEntry(KeyOf(b)) ]_vars

\* a transcription was cached without diarization while another one is
\* cached with diarization
C24_Witness ==
  /\ c_last.op = "set"
  /\ c_last.key = KeyOf(Options(FALSE))
  /\ promised[KeyOf(Options(FALSE))] = "Transcription 1"
  /\ promised[KeyOf(Options(TRUE))] = "Transcription 2"
  /\ get(cache_dir, KeyOf(Options(TRUE)), "ok") = "Transcription 2"
  /\ get(cache_dir, KeyOf(Options(FALSE)), "ok") = "Transcription 1"

(***************************************************************************)
(* C25.  When the conversations.join call of auto-join recovery fails (ok  *)
(* false, or the call raises), the fetch ends in failure: it raises        *)
(* SlackAPIError with the original not_in_channel error, and the request   *)
(* that was refused is not issued again.  A failed join is the last        *)
(* request of its fetch; after a thread fetch that fetch_messages has      *)
(* swallowed, fetch_messages goes on with the next thread or the next      *)
(* page.                                                                   *)
(***************************************************************************)
JoinFailedAt(i) == IsJoin(trace[i]) /\ trace[i].resp # "ok"

C25_FailedJoinEndsFetch ==
  \A i \in 1..Len(trace) :
    JoinFailedAt(i) =>
      /\ i > 1
      /\ NotInChannelAt(i - 1)
      /\ trace[i - 1].url = history_url =>
           /\ i = Len(trace)
           /\ pc = "raised"
           /\ error = Raised("SlackAPIError", "not_in_channel")
      /\ trace[i - 1].url = replies_url =>
           /\ i = Len(trace) =>
                /\ t_pc \in {"raised", "off"}
                /\ t_error = Raised("SlackAPIError", "not_in_channel")
           /\ i < Len(trace) => trace[i + 1].op \in {"call", "sleep"}

\* the second history page was refused and the join was answered ok false
C25_Witness ==
  /\ pc = "raised"
  /\ error = Raised("SlackAPIError", "not_in_channel")
  /\ Len(HistoryRequests) = 2
  /\ JoinFailedAt(Len(trace))
  /\ trace[Len(trace)].resp = "not_ok"

\* fetch_thread_messages, called on its own, was refused and the join raised
C25_WitnessThread ==
  /\ pc = "thread_only"
  /\ t_pc = "raised"
  /\ t_error = Raised("SlackAPIError", "not_in_channel")
  /\ JoinFailedAt(Len(trace))
  /\ trace[Len(trace)].resp = "raises"

(***************************************************************************)
(* Reading the traces: what a page request carries.                        *)
(***************************************************************************)
\* the parameters of a request other than the cursor
Rest(p) == [p EXCEPT !.cursor = Absent]

\* request `next` follows request `prev` in one pagination loop: after a page
\* it carries that page's next_cursor, after a refusal or a rate-limit answer
\* it is the same request again; nothing else has changed
Continues(prev, next) ==
  /\ Rest(next.params) = Rest(prev.params)
  /\ next.params.cursor =
       IF prev.resp.kind = "ok" THEN prev.resp.cursor ELSE prev.params.cursor

\* the last position before i that holds a replies request or the start of a
\* fetch_thread_messages call
ThreadPrev(i) ==
  CHOOSE j \in 1..(i - 1) :
    /\ trace[j].op = "call" \/ IsRequestTo(trace[j], replies_url)
    /\ \A k \in (j + 1)..(i - 1) :
         ~(trace[k].op = "call" \/ IsRequestTo(trace[k], replies_url))

\* a conversations.list page after which _get_channels returns
EndsPartition(e) == e.resp.kind = "ok" /\ e.resp.cursor \in {Absent, ""}

(***************************************************************************)
(* C26.  The pagination cursor is only round-tripped.  In fetch_messages,  *)
(* in every fetch_thread_messages call and in every _get_channels call     *)
(* the first request carries no cursor, the request after a page carries   *)
(* exactly the next_cursor returned with that page, and all other          *)
(* parameters (channel, limit, oldest, latest, ts, types) are the same on  *)
(* every request of one fetch.                                             *)
(***************************************************************************)
C26_HistoryCursor ==
  LET reqs == HistoryRequests
  IN /\ reqs # <<>> =>
          /\ reqs[1].params.cursor = Absent
          /\ reqs[1].params.channel = channel_id
          /\ reqs[1].params.oldest = "3"
          /\ reqs[1].params.latest = Absent
     /\ \A k \in 2..Len(reqs) : Continues(reqs[k - 1], reqs[k])

C26_ThreadCursor ==
  \A i \in 1..Len(trace) :
    IsRequestTo(trace[i], replies_url) =>
      LET prev == trace[ThreadPrev(i)]
      IN IF prev.op = "call"
           THEN /\ trace[i].params.cursor = Absent
                /\ trace[i].params.ts = prev.thread_ts
                /\ trace[i].params.channel = channel_id
           ELSE Continues(prev, trace[i])

C26_ListCursor ==
  LET reqs == ListRequests
  IN /\ reqs # <<>> => reqs[1].params.cursor = Absent
     /\ \A k \in 2..Len(reqs) :
          IF EndsPartition(reqs[k - 1])
            THEN /\ reqs[k].params.cursor = Absent
                 /\ reqs[k].params.types # reqs[k - 1].params.types
            ELSE Continues(reqs[k - 1], reqs[k])

C26_CursorRoundTripped == C26_HistoryCursor /\ C26_ThreadCursor /\ C26_ListCursor

\* the third history page was requested with the cursor of the second, an
\* empty one, after the second was requested with the cursor of the first
C26_Witness ==
  /\ Len(HistoryRequests) = 3
  /\ HistoryRequests[1].resp.cursor = "c1"
  /\ HistoryRequests[2].params.cursor = "c1"
  /\ HistoryRequests[2].resp.kind = "ok"
  /\ HistoryRequests[2].resp.cursor = ""
  /\ HistoryRequests[3].params.cursor = ""
  /\ HistoryRequests[3].params.oldest = "3"

\* the second partition was requested without the cursor of the first
C26_WitnessLister ==
  /\ Len(ListRequests) = 3
  /\ ListRequests[1].resp.cursor = "c1"
  /\ ListRequests[2].params.cursor = "c1"
  /\ EndsPartition(ListRequests[2])
  /\ ListRequests[3].params.types = "private_channel"
  /\ ListRequests[3].params.cursor = Absent

(***************************************************************************)
(* Reading the thread loop of fetch_messages.                              *)
(***************************************************************************)
\* the reply metadata of a message indicates a thread
IndicatesThread(m) == m.thread_ts # NoTs \/ m.reply_count > 0

\* the step sets thread_replies on message j of the page and on nothing else
SetsThreadReplies(j) ==
  /\ processed_messages'[j].has_thread_replies
  /\ processed_messages' =
       [processed_messages EXCEPT
          ![j].thread_replies = processed_messages'[j].thread_replies,
          ![j].has_thread_replies = TRUE]

\* a step of the thread loop that writes to the page sets thread_replies on
\* one message, one the loop has not passed, whose metadata indicates a thread
\* and which carries no replies yet; the loop then moves past it
ThreadRepliesSetOnce ==
  pc = "threads" /\ pc' = "threads" /\ processed_messages' # processed_messages =>
    \E j \in idx..Len(processed_messages) :
      /\ SetsThreadReplies(j)
      /\ IndicatesThread(processed_messages[j])
      /\ processed_messages[j].thread_replies = <<>>
      /\ idx' > j

\* in the result a message is as it was received, but for thread_replies on
\* the messages a thread fetch was made for
ResultFieldsAdded ==
  \A k \in 1..Len(all_messages) :
    LET m == all_messages[k]
        raw == AsReceived(k)
    IN /\ Cardinality(ThreadCalls(m)) <= 1
       /\ ThreadCalls(m) # {} => IndicatesThread(raw) /\ m.has_thread_replies
       /\ ThreadCalls(m) = {} =>
            /\ m.has_thread_replies = raw.has_thread_replies
            /\ m.thread_replies = raw.thread_replies
       /\ ~IndicatesThread(raw) => ~m.has_thread_replies

(***************************************************************************)
(* C27.  In the result of fetch_messages, thread_replies is set by the     *)
(* downloader at most once per message and only on messages whose reply    *)
(* metadata indicates a thread (thread_ts present or reply_count > 0); a   *)
(* message with neither is returned without a thread_replies field added.  *)
(***************************************************************************)
C27_ThreadRepliesOnceAndOnlyOnThreads ==
  /\ []ResultFieldsAdded
  /\ [][ThreadRepliesSetOnce]_vars

\* a plain page and a page with a thread root and a message that came with
\* its replies: the field is on the last two only, one of them set by a fetch
C27_Witness ==
  /\ pc = "done"
  /\ Len(all_messages) = 4
  /\ ~IndicatesThread(all_messages[1]) /\ ~all_messages[1].has_thread_replies
  /\ ~IndicatesThread(all_messages[2]) /\ ~all_messages[2].has_thread_replies
  /\ Cardinality(ThreadCalls(all_messages[3])) = 1
  /\ all_messages[3].has_thread_replies
  /\ ~AsReceived(3).has_thread_replies
  /\ ThreadCalls(all_messages[4]) = {}
  /\ all_messages[4].thread_replies = AsReceived(4).thread_replies

(***************************************************************************)
(* Reading a step of the downloader: what it requested and what it         *)
(* resolved.                                                               *)
(***************************************************************************)
\* the calls the step has added to the trace
NewCalls == SubSeq(trace', Len(trace) + 1, Len(trace'))

\* the messages the step has processed, as received and as stored
NewlyProcessed ==
  CASE pc \in {"get", "retry"} /\ pc' = "threads" ->
         [raw |-> NewCalls[1].resp.messages, done |-> processed_messages']
    [] t_pc \in {"get", "retry"} /\ t_pc' \in {"get", "returned"} ->
         [raw |-> NewCalls[1].resp.messages,
          done |-> SubSeq(t_all', Len(t_all) + 1, Len(t_all'))]
    [] OTHER -> [raw |-> <<>>, done |-> <<>>]

\* every mention of u the step has processed was replaced by @name
ResolvedAs(u, name) ==
  LET new == NewlyProcessed
  IN /\ Len(new.done) = Len(new.raw)
     /\ \A k \in 1..Len(new.raw) :
          \A n \in 1..Len(new.raw[k].text) :
            new.raw[k].text[n] = Mention(u) => new.done[k].text[n] = At(name)

(***************************************************************************)
(* C28.  users_cache entries are write-once within a session: once         *)
(* users_cache holds a display name for a user id, no operation of the     *)
(* SlackDownloader changes or removes that entry, and every later          *)
(* resolution of that id returns the same name without a lookup.           *)
(***************************************************************************)
C28_CacheEntriesWriteOnce ==
  [][ \A u \in DOMAIN users_cache :
        /\ u \in DOMAIN users_cache'
        /\ users_cache'[u] = users_cache[u]
        /\ \A i \in 1..Len(NewCalls) :
             ~(IsRequestTo(NewCalls[i], users_info_url) /\ NewCalls[i].params.user = u)
        /\ ResolvedAs(u, users_cache[u]) ]_vars

\* fetch_thread_messages, called on its own, resolved U1 on its first page and
\* took the name from the cache on its second
C28_Witness ==
  /\ pc = "thread_only"
  /\ Len(t_all) = 2
  /\ t_all[1].text = <<At("alice")>>
  /\ t_all[2].text = <<At("alice")>>
  /\ Len(RepliesRequests) = 2
  /\ Cardinality(Lookups("U1")) = 1
  /\ "U1" \in DOMAIN users_cache
  /\ users_cache["U1"] = "alice"

(***************************************************************************)
(* Reading the lister's trace.                                             *)
(***************************************************************************)
\* the partitions list_channels is to request, in order
ExpectedTypes(private) ==
  IF private THEN <<"public_channel", "private_channel", "im", "mpim">>
  ELSE <<"public_channel">>

\* the position of a request's partition among the expected ones, or 0
PartitionOf(e) ==
  LET types == ExpectedTypes(include_private)
      at == {n \in 1..Len(types) : types[n] = e.params.types}
  IN IF at = {} THEN 0 ELSE CHOOSE n \in at : TRUE

\* the channels of the answers to `reqs`, page after page
RECURSIVE ChannelsOf(_)
ChannelsOf(reqs) ==
  IF reqs = <<>> THEN <<>> ELSE Head(reqs).resp.channels \o ChannelsOf(Tail(reqs))

(***************************************************************************)
(* C29.  list_channels returns the concatenation, in the order public,     *)
(* private, im, mpim, of the fully paginated partitions it requests: the   *)
(* private, im and mpim partitions are requested exactly when              *)
(* include_private is true, a partition is left only at a page without a   *)
(* cursor to follow, and the first request of each partition carries no    *)
(* cursor.                                                                 *)
(***************************************************************************)
C29_PartitionsConcatenated ==
  LET reqs == ListRequests
      n == Len(reqs)
  IN /\ \A k \in 1..n : PartitionOf(reqs[k]) >= 1
     /\ n >= 1 => PartitionOf(reqs[1]) = 1 /\ reqs[1].params.cursor = Absent
     /\ \A k \in 2..n :
          IF EndsPartition(reqs[k - 1])
            THEN /\ PartitionOf(reqs[k]) = PartitionOf(reqs[k - 1]) + 1
                 /\ reqs[k].params.cursor = Absent
            ELSE /\ PartitionOf(reqs[k]) = PartitionOf(reqs[k - 1])
                 /\ reqs[k - 1].resp.kind = "ok" =>
                      reqs[k].params.cursor = reqs[k - 1].resp.cursor
     /\ cl_pc = "done" =>
          /\ n >= 1
          /\ EndsPartition(reqs[n])
          /\ PartitionOf(reqs[n]) = Len(ExpectedTypes(include_private))
          /\ all_channels = ChannelsOf(reqs)
          /\ \A i, k \in 1..Len(all_channels) :
               i < k => PartitionOf([params |-> [types |-> all_channels[i].types]])
                          <= PartitionOf([params |-> [types |-> all_channels[k].types]])

\* all four partitions were listed, the public one over two pages
C29_Witness ==
  /\ cl_pc = "done"
  /\ include_private
  /\ Len(ListRequests) = 5
  /\ ListRequests[2].params.types = "public_channel"
  /\ Len(all_channels) = 10
  /\ all_channels[4].types = "public_channel"
  /\ all_channels[5].types = "private_channel"
  /\ all_channels[10].types = "mpim"

\* without include_private only the public partition was listed
C29_WitnessPublicOnly ==
  /\ cl_pc = "done"
  /\ ~include_private
  /\ Len(ListRequests) = 2
  /\ Len(all_channels) = 4
  /\ all_channels[4].types = "public_channel"

(***************************************************************************)
(* C30.  A transport failure of any GET that fetch_messages or             *)
(* fetch_thread_messages issues, the first attempt of a page as well as    *)
(* the retry that follows a successful join, is surfaced at once as        *)
(* RequestError (not as SlackAPIError) and is not retried: the failed GET  *)
(* is the last request of its fetch.                                       *)
(***************************************************************************)
TransportFailedAt(i) == IsPageRequest(trace[i]) /\ trace[i].resp.kind = "transport"

C30_TransportFailureIsRequestError ==
  \A i \in 1..Len(trace) :
    TransportFailedAt(i) =>
      /\ trace[i].url = history_url =>
           /\ i = Len(trace)
           /\ pc = "raised"
           /\ error.type = "RequestError"
      /\ trace[i].url = replies_url =>
           /\ i = Len(trace) =>
                t_pc \in {"raised", "off"} /\ t_error.type = "RequestError"
           /\ i < Len(trace) => trace[i + 1].op \in {"call", "sleep"}

(***************************************************************************)
(* Reading the filter calls: the date range as the caller states it.       *)
(***************************************************************************)
\* the last filter call made
LastFilterCall == f_calls[Len(f_calls)]

\* lo <= t <= hi for the message's instant t, a bound that was not given
\* being no bound
WithinBounds(m, lo, hi) ==
  /\ lo.given => lo.at <= message_date(m)
  /\ hi.given => message_date(m) <= hi.at

(***************************************************************************)
(* C31.  by_date_range keeps, in input order, exactly the messages whose   *)
(* timestamp t satisfies start <= t <= end, both bounds inclusive, an      *)
(* absent bound being unbounded on that side: every by_date_range call     *)
(* returns the list of the messages of its argument that lie within the    *)
(* bounds, in the order of the argument.                                   *)
(***************************************************************************)
C31_DateRangeInclusive ==
  [][ Len(f_calls') > Len(f_calls) =>
        LET c == f_calls'[Len(f_calls')]
        IN c.op.name = "by_date_range" =>
             lists'[c.result] =
               SelectSeq(c.before,
                         LAMBDA m : WithinBounds(m, c.op.start_date, c.op.end_date)) ]_vars

\* from the instant 2 on, all of <<3, 2, 3>> was kept; up to the instant 2,
\* only the message at 2 was kept of that result
C31_Witness ==
  /\ Len(f_calls) = 2
  /\ f_calls[1].op = FilterOp("by_date_range", "", Date(2), NoDate)
  /\ f_calls[2].op = FilterOp("by_date_range", "", NoDate, Date(2))
  /\ f_calls[2].arg = f_calls[1].result
  /\ Len(f_calls[1].before) = 3
  /\ message_date(f_calls[1].before[1]) = 3
  /\ message_date(f_calls[1].before[2]) = 2
  /\ f_calls[2].before = f_calls[1].before
  /\ f_pc = "filtering"
  /\ Len(lists[f_calls[2].result]) = 1
  /\ message_date(lists[f_calls[2].result][1]) = 2

(***************************************************************************)
(* Reading the traces: requests that carry an empty cursor.                *)
(***************************************************************************)
\* a page request sent with cursor = ""
SendsEmptyCursor(e) ==
  /\ IsPageRequest(e) \/ IsRequestTo(e, list_url)
  /\ e.params.cursor = ""

\* an answer whose next_cursor is present but empty
EmptyNextCursor(e) == e.resp.kind = "ok" /\ e.resp.cursor = ""

(***************************************************************************)
(* C32.  No pagination loop ever sends a request whose cursor parameter is *)
(* the empty string: a page whose next_cursor is present but empty is the  *)
(* last request of its loop in fetch_messages and fetch_thread_messages,   *)
(* as it is in _get_channels and in SlackPaginator.fetch_all.              *)
(***************************************************************************)
C32_EmptyCursorEndsPagination ==
  /\ \A i \in 1..Len(trace) : ~SendsEmptyCursor(trace[i])
  /\ \A i \in 1..Len(cl_trace) : ~SendsEmptyCursor(cl_trace[i])
  /\ \A i \in 1..Len(ClientCalls) : ClientCalls[i].params.cursor # ""
  /\ \A i \in 1..(Len(HistoryRequests) - 1) : ~EmptyNextCursor(HistoryRequests[i])
  /\ \A i \in 1..(Len(ClientCalls) - 1) : ~EmptyNextCursor(ClientCalls[i])

(***************************************************************************)
(* Reading the trace: top-level messages, replies and thread fetches.      *)
(***************************************************************************)
\* the elements of a sequence
Range(seq) == {seq[i] : i \in 1..Len(seq)}

\* the timestamps of the messages received on history (replies) pages
TopLevelTs == {m.ts : m \in Range(PagesOf(OkPagesAfter(0, history_url)))}
ReplyTs == {m.ts : m \in Range(PagesOf(OkPagesAfter(0, replies_url)))}

\* positions of the fetch_thread_messages calls
ThreadFetches == {i \in 1..Len(trace) : trace[i].op = "call"}

\* a reply that carries thread metadata of its own
ThreadBearingReply(r) == r.thread_ts # NoTs /\ r.reply_count > 0

\* no reply held by a message of msgs has had thread_replies set on it
NestedOnce(msgs) ==
  \A k \in 1..Len(msgs) :
    \A j \in 1..Len(msgs[k].thread_replies) :
      LET r == msgs[k].thread_replies[j]
      IN ~r.has_thread_replies /\ r.thread_replies = <<>>

\* in a fetch_messages run every thread fetch was made for a top-level
\* message, no two for the same one
FetchesForTopLevelOnly ==
  pc # "thread_only" =>
    /\ \A i \in ThreadFetches :
         trace[i].of \in TopLevelTs /\ trace[i].of \notin ReplyTs
    /\ \A i, k \in ThreadFetches : trace[i].of = trace[k].of => i = k
    /\ Cardinality(ThreadFetches) <= Cardinality(TopLevelTs)

\* a step that receives a page of replies starts no thread fetch and sets
\* thread_replies on none of the replies
RepliesNotExpanded ==
  t_all' # t_all /\ t_all' # <<>> =>
    /\ \A i \in 1..Len(NewCalls) : NewCalls[i].op # "call"
    /\ \A k \in 1..Len(t_all') : ~t_all'[k].has_thread_replies

(***************************************************************************)
(* C33.  Thread expansion is not recursive: the messages                   *)
(* fetch_thread_messages returns never trigger a further thread fetch,     *)
(* even when they carry thread_ts or reply_count > 0, so in one            *)
(* fetch_messages run there are no more thread fetches than top-level      *)
(* messages and thread_replies is nested one level deep at most.           *)
(***************************************************************************)
C33_ThreadExpansionNotRecursive ==
  /\ [](FetchesForTopLevelOnly /\ NestedOnce(all_messages)
          /\ NestedOnce(processed_messages))
  /\ [][RepliesNotExpanded]_vars

\* two top-level messages, one thread fetch: its reply carried thread_ts and
\* reply_count 1 and was attached as it came
C33_Witness ==
  /\ pc = "done"
  /\ Len(all_messages) = 2
  /\ Cardinality(ThreadFetches) = 1
  /\ Len(all_messages[1].thread_replies) = 1
  /\ ThreadBearingReply(all_messages[1].thread_replies[1])
  /\ all_messages[1].thread_replies[1].ts \in ReplyTs
  /\ ~all_messages[1].thread_replies[1].has_thread_replies

(***************************************************************************)
(* C34.  Under every interleaving of the audio callback, the recording     *)
(* thread, the saving thread and stop_recording, every chunk the callback  *)
(* has enqueued is in the recording file when stop_recording returns: the  *)
(* queue is empty and the file holds the chunks in the order of delivery.  *)
(***************************************************************************)
C34_EveryChunkWritten ==
  a_pc = "stopped" =>
    /\ audio_queue = <<>>
    /\ frames = [i \in 1..delivered |-> i]

(***************************************************************************)
(* C35.  After transcribe has succeeded with use_cache enabled and         *)
(* returned a non-empty transcription, an immediately following            *)
(* transcribe of the same unchanged file with the same options and         *)
(* use_cache enabled makes no call of the transcription client and         *)
(* returns the same text.                                                  *)
(***************************************************************************)
\* the last call returned a non-empty transcription with use_cache enabled
SucceededCached(call) ==
  /\ ~call.raised
  /\ call.use_cache
  /\ call.ret \notin {Absent, ""}

\* two calls on the same unchanged file with the same options
SameTranscribeRequest(a, b) ==
  /\ a.path = b.path /\ a.size = b.size /\ a.mtime = b.mtime
  /\ a.diarization = b.diarization

C35_SecondTranscribeServedFromCache ==
  [][ ( /\ s_calls' = s_calls + 1
        /\ s_calls > 0
        /\ SucceededCached(s_last)
        /\ s_last'.use_cache
        /\ SameTranscribeRequest(s_last, s_last') )
      => ( /\ s_last'.client_calls = 0
           /\ ~s_last'.raised
           /\ s_last'.ret = s_last.ret ) ]_vars

====
